---------------------------- MODULE Spec2Model ----------------------------
(***************************************************************************)
(* Kingdom of Xorx (src/xorx.c): the simulation core.                      *)
(*                                                                         *)
(* The world is a grid of cells {tile, tick}; update_game either pans the  *)
(* view toward the player's base rectangle or sweeps the active viewport,  *)
(* dispatching every cell whose tick equals the 8-bit game tick.           *)
(*                                                                         *)
(* Scale.  The source fixes MAP_COLS x MAP_ROWS = 512 x 256 and            *)
(* VIEW_COLS x VIEW_ROWS = 32 x 16.  The model keeps the structure (the    *)
(* map is a whole number of viewport pages, VIEW_COLS is even) and takes   *)
(* the page size and the page count from the bounds HalfViewCols,          *)
(* ViewRows, PagesX and PagesY.  All tick, random-cursor and tile          *)
(* arithmetic keeps the source's width (mod 256) and the source's values.  *)
(***************************************************************************)
EXTENDS Integers, Sequences, FiniteSets, TLC

\* ------------------------------------------------------------------ bounds
HalfViewCols == 2
ViewRows == 2
PagesX == 2
PagesY == 2
\* sweeps explored with every input
MaxSteps == 9
\* sweeps explored with the buttons released, on the level without entities
\* (long enough for the tick to wrap)
LongSteps == 258
\* magnitude of the far out-of-bounds positions and of the large damage
Far == 1000
\* single operations applied in a row by the operation harness
MaxOps == 2
\* largest offset (in pan steps) of the view from the player's base rectangle
\* that the pan harness starts from
PanReach == 3
\* most floor pixels in a window of the load harness
LoadFloors == 2
\* sweeps explored with the buttons released on the levels with two
\* teleporters and with two attackers (long enough for the four frames of
\* an arrival and of an explosion to play)
SpawnSteps == 12

\* ---------------------------------------------------------------- defines
VIEW_COLS == 2 * HalfViewCols
VIEW_ROWS == ViewRows
MAP_COLS == PagesX * VIEW_COLS
MAP_ROWS == PagesY * VIEW_ROWS

TILE_EMPTY == 0
TILE_LIFE == 16
TILE_AMMO == 17
TILE_FLASK == 18
TILE_WALL_0 == 128
TILE_WALL_1 == 129
TILE_WALL_2 == 130
TILE_WALL_3 == 131
TILE_RUIN_0 == 132
TILE_RUIN_1 == 133
TILE_TREE_0 == 134
TILE_TREE_2 == 136
TILE_GRASS_0 == 138
TILE_GRASS_1 == 139
TILE_WATER_0 == 140
TILE_WATER_1 == 141
TILE_EXPLOSION_0 == 144
TILE_EXPLOSION_1 == 145
TILE_EXPLOSION_2 == 146
TILE_EXPLOSION_3 == 147
TILE_SPAWN_0 == 148
TILE_SPAWN_1 == 149
TILE_SPAWN_2 == 150
TILE_SPAWN_3 == 151
TILE_ARROW_N == 152
TILE_WARROW_N == 156
TILE_MONSTER_0 == 160
TILE_MONSTER_1 == 161
TILE_MONSTER_2 == 162
TILE_MONSTER_3 == 163
TILE_PLAYER_STAND == 164
TILE_PLAYER_SHOOT == 165
TILE_PLAYER_MAGIC == 166
TILE_PLAYER_DEFEND == 167
TILE_BOLT_N == 168
TILE_WBOLT_N == 172
TILE_BOLT_TRAP_0 == 176
TILE_BOLT_TRAP_1 == 177
TILE_SHRINE_0 == 178
TILE_SHRINE_3 == 181
TILE_TELEPORT == 182
TILE_PSPAWN_0 == 183
TILE_PSPAWN_1 == 184
TILE_PSPAWN_2 == 185
TILE_PSPAWN_3 == 186
TILE_BOULDER == 187
TILE_WALL_X == 255

DIR_NONE == 0
DIR_NORTH == 1
DIR_EAST == 2
DIR_SOUTH == 3
DIR_WEST == 4

\* btn_t: a button state is the set of the mask's bits that are set
BUTTON_A == "A"
BUTTON_X == "X"
BUTTON_UP == "UP"
BUTTON_DOWN == "DOWN"
BUTTON_LEFT == "LEFT"
BUTTON_RIGHT == "RIGHT"

\* ----------------------------------------------------------------- state
VARIABLES
    game,       \* state.game: paused, dead, rand, tick, player, view, life,
                \*             ammo, flasks, cells
    playing,    \* state.audio.playing: the sounds raised by the last tick
    input,      \* state.input: down, prev as the last tick saw them
    level,      \* the content of world.bmp (fixed for the whole run)
    build,      \* the order in which the build evaluates call arguments
    steps,      \* number of sweeps update_game has made so far
    last,       \* history of the last update_game: the branch it took, the
                \* cells it dispatched, the state it started from
    probe       \* operation harness: the last single operation applied

vars == <<game, playing, input, level, build, steps, last, probe>>

\* ------------------------------------------------------- various routines
\* C integer division truncates toward zero
CDiv(a, b) == IF a >= 0 THEN a \div b ELSE -((-a) \div b)

mini(a, b) == IF a < b THEN a ELSE b

rnd_data ==
    << 87, 31, 118, 249, 64, 152, 247, 255, 254, 202, 250, 123, 39, 194, 240,
       135, 117, 130, 66, 219, 48, 225, 37, 237, 105, 176, 78, 198, 99, 85, 3,
       34, 61, 96, 50, 45, 43, 136, 203, 23, 119, 132, 175, 131, 178, 19, 36,
       70, 241, 183, 140, 161, 199, 67, 155, 86, 220, 223, 65, 233, 71, 2,
       192, 35, 244, 134, 166, 141, 236, 186, 46, 116, 184, 195, 205, 179,
       181, 30, 109, 215, 245, 206, 228, 191, 187, 15, 115, 20, 93, 145, 113,
       60, 151, 231, 137, 83, 209, 174, 59, 62, 89, 22, 51, 177, 114, 129, 7,
       169, 171, 126, 18, 79, 160, 16, 180, 163, 232, 207, 144, 1, 246, 230,
       94, 122, 167, 172, 104, 0, 128, 72, 90, 12, 76, 196, 41, 190, 193, 52,
       149, 68, 189, 73, 100, 95, 218, 121, 156, 33, 108, 8, 157, 63, 77, 150,
       139, 138, 162, 107, 82, 88, 200, 234, 74, 28, 110, 54, 229, 4, 84, 133,
       239, 103, 125, 211, 153, 159, 197, 29, 102, 27, 142, 24, 158, 253, 222,
       217, 204, 148, 147, 170, 213, 111, 226, 208, 56, 168, 143, 6, 165, 201,
       47, 112, 92, 251, 13, 212, 55, 242, 188, 91, 80, 146, 210, 243, 235,
       81, 124, 252, 14, 238, 221, 127, 5, 53, 106, 214, 227, 42, 101, 57, 38,
       21, 9, 97, 40, 44, 248, 164, 98, 75, 32, 154, 11, 10, 182, 224, 173,
       17, 185, 25, 58, 26, 216, 120, 69, 49 >>

\* rnd(): the value returned, and the state with the cursor advanced
rnd_val(g) == rnd_data[g.rand + 1]
rnd_adv(g) == [g EXCEPT !.rand = (@ + 1) % 256]

vec2(x, y) == [x |-> x, y |-> y]
veq(a, b) == (a.x = b.x) /\ (a.y = b.y)
vadd(a, b) == [x |-> a.x + b.x, y |-> a.y + b.y]
vsub(a, b) == [x |-> a.x - b.x, y |-> a.y - b.y]

vdir(dir) ==
    CASE dir = DIR_NORTH -> vec2(0, -1)
      [] dir = DIR_EAST -> vec2(1, 0)
      [] dir = DIR_SOUTH -> vec2(0, 1)
      [] dir = DIR_WEST -> vec2(-1, 0)
      [] OTHER -> vec2(0, 0)

vmove(v, d) == vadd(v, vdir(d))

\* vbase with only the column normalised
vbase_xonly(v) == [x |-> CDiv(v.x, VIEW_COLS) * VIEW_COLS, y |-> v.y]

vbase(v) ==
    [x |-> CDiv(v.x, VIEW_COLS) * VIEW_COLS, y |-> CDiv(v.y, VIEW_ROWS) * VIEW_ROWS]

btn(in, mask) == mask \in in.down
btnp(in, mask) == mask \in (in.down \ in.prev)

sound(g, id) == [g EXCEPT !.playing = @ \cup {id}]

invalid_position == vec2(-1, -1)

inside(v) == (v.x >= 0) /\ (v.x < MAP_COLS) /\ (v.y >= 0) /\ (v.y < MAP_ROWS)

\* visible that holds of every position
visible_anywhere(g, v) == TRUE

visible(g, v) == veq(vbase(v), g.view)

Cell(tile, tick) == [tile |-> tile, tick |-> tick]

get(g, v) == IF inside(v) THEN g.cells[v.y][v.x] ELSE Cell(TILE_WALL_0, 0)

\* put that wraps the index instead of rejecting it
put_wrapped(g, v, c) ==
    [g EXCEPT !.cells[v.y % MAP_ROWS][v.x % MAP_COLS] = c]

put(g, v, c) == IF inside(v) THEN [g EXCEPT !.cells[v.y][v.x] = c] ELSE g

clear(g, v) == put(g, v, Cell(TILE_EMPTY, 0))

\* shape with the wake tick not truncated to 8 bits
shape_nowrap(g, v, tile, ticks) == put(g, v, Cell(tile, g.tick + ticks))

shape(g, v, tile, ticks) == put(g, v, Cell(tile, (g.tick + ticks) % 256))

\* hibernate with the operands of the subtraction exchanged
hibernate_reversed(g, v) ==
    LET cell == get(g, v)
    IN  put(g, v, Cell(cell.tile, (g.tick + 256 - cell.tick) % 256))

hibernate(g, v) ==
    LET cell == get(g, v)
    IN  put(g, v, Cell(cell.tile, (cell.tick + 256 - g.tick) % 256))

\* explode whose first frame lasts a tick longer
explode_slow(g, v) == sound(shape(g, v, TILE_EXPLOSION_0, 3), "EXPLODE")

explode(g, v) == sound(shape(g, v, TILE_EXPLOSION_0, 2), "EXPLODE")

input_dir(in) ==
    IF btn(in, BUTTON_UP) THEN DIR_NORTH
    ELSE IF btn(in, BUTTON_DOWN) THEN DIR_SOUTH
    ELSE IF btn(in, BUTTON_LEFT) THEN DIR_WEST
    ELSE IF btn(in, BUTTON_RIGHT) THEN DIR_EAST
    ELSE DIR_NONE

\* random_dir(): DIR_NORTH + rnd() % 4
random_dir(g) == DIR_NORTH + (rnd_val(g) % 4)

\* chase_dir(src, dst): the direction, and the state after its rnd() call
chase_rolls(src, dst) == (dst.x - src.x # 0) /\ (dst.y - src.y # 0)

\* chase_dir that walks from dst -> src
chase_dir_away(g, src, dst) ==
    LET d0 == vsub(src, dst)
        delta == IF chase_rolls(src, dst)
                 THEN (IF rnd_val(g) % 2 # 0 THEN [d0 EXCEPT !.x = 0]
                                             ELSE [d0 EXCEPT !.y = 0])
                 ELSE d0
    IN  IF delta.x < 0 THEN DIR_WEST
        ELSE IF delta.x > 0 THEN DIR_EAST
        ELSE IF delta.y < 0 THEN DIR_NORTH
        ELSE IF delta.y > 0 THEN DIR_SOUTH
        ELSE DIR_NONE

chase_dir(g, src, dst) ==
    LET d0 == vsub(dst, src)
        delta == IF chase_rolls(src, dst)
                 THEN (IF rnd_val(g) % 2 # 0 THEN [d0 EXCEPT !.x = 0]
                                             ELSE [d0 EXCEPT !.y = 0])
                 ELSE d0
    IN  IF delta.x < 0 THEN DIR_WEST
        ELSE IF delta.x > 0 THEN DIR_EAST
        ELSE IF delta.y < 0 THEN DIR_NORTH
        ELSE IF delta.y > 0 THEN DIR_SOUTH
        ELSE DIR_NONE

chase_adv(g, src, dst) == IF chase_rolls(src, dst) THEN rnd_adv(g) ELSE g

\* ------------------------------------------------------ gameplay routines
WallTiles == {TILE_WALL_0, TILE_WALL_1, TILE_WALL_2, TILE_WALL_3, TILE_WALL_X}
MonsterTiles == {TILE_MONSTER_0, TILE_MONSTER_1, TILE_MONSTER_2, TILE_MONSTER_3}
PlayerTiles ==
    {TILE_PLAYER_STAND, TILE_PLAYER_SHOOT, TILE_PLAYER_MAGIC, TILE_PLAYER_DEFEND}
ExplosionTiles ==
    {TILE_EXPLOSION_0, TILE_EXPLOSION_1, TILE_EXPLOSION_2, TILE_EXPLOSION_3}
WaterTiles == {TILE_WATER_0, TILE_WATER_1}

\* iswall that does not count the solid wall
iswall_plain(g, v) == get(g, v).tile \in WallTiles \ {TILE_WALL_X}

iswall(g, v) == get(g, v).tile \in WallTiles

enclosed(g, src) ==
    \A y \in -1..1 : \A x \in -1..1 : iswall(g, vadd(src, vec2(x, y)))

\* hurt with <= for <
hurt_le(g, damage) ==
    IF damage <= g.life
    THEN shape(sound([g EXCEPT !.life = @ - damage], "PLAYER_HURT"),
               g.player, TILE_PLAYER_DEFEND, 5)
    ELSE explode(sound([g EXCEPT !.life = 0, !.dead = TRUE], "PLAYER_DIED"),
                 g.player)

\* hurt that subtracts the damage from the life it takes
hurt_below(g, damage) ==
    IF damage < g.life
    THEN shape(sound([g EXCEPT !.life = @ - damage], "PLAYER_HURT"),
               g.player, TILE_PLAYER_DEFEND, 5)
    ELSE explode(sound([g EXCEPT !.life = @ - damage, !.dead = TRUE],
                       "PLAYER_DIED"),
                 g.player)

\* hurt(damage)
hurt(g, damage) ==
    IF damage < g.life
    THEN shape(sound([g EXCEPT !.life = @ - damage], "PLAYER_HURT"),
               g.player, TILE_PLAYER_DEFEND, 5)
    ELSE explode(sound([g EXCEPT !.life = 0, !.dead = TRUE], "PLAYER_DIED"),
                 g.player)

\* teleport(src, dir): scan from src along dir for the next teleporter
RECURSIVE teleport_scan(_, _, _)
teleport_scan(g, dst, dir) ==
    IF ~inside(dst) THEN [ok |-> FALSE, g |-> g]
    ELSE IF get(g, dst).tile = TILE_TELEPORT
    THEN LET g1 == clear(sound(g, "TELEPORT"), g.player)
             g2 == [g1 EXCEPT !.player = vmove(dst, dir)]
             g3 == [g2 EXCEPT !.view = vbase(g2.player)]
         IN  [ok |-> TRUE, g |-> shape(g3, g3.player, TILE_PSPAWN_0, 2)]
    ELSE teleport_scan(g, vmove(dst, dir), dir)

\* teleport whose scan starts at the teleporter entered
teleport_from_src(g, src, dir) == teleport_scan(g, src, dir)

\* teleport that leaves the view origin to the pan of later ticks
teleport_keeps_view(g, src, dir) ==
    [ok |-> teleport_scan(g, vmove(src, dir), dir).ok,
     g |-> [teleport_scan(g, vmove(src, dir), dir).g EXCEPT !.view = g.view]]

teleport(g, src, dir) == teleport_scan(g, vmove(src, dir), dir)

\* push whose boulder floats: pushing it into water succeeds
push_floats(g, src, dir) ==
    LET dst == vmove(src, dir)
        t == get(g, dst).tile
    IN  CASE t = TILE_EMPTY ->
               [ok |-> TRUE,
                g |-> sound(shape(clear(g, src), dst, TILE_BOULDER, 0), "BOULDER")]
          [] t \in MonsterTiles ->
               [ok |-> FALSE,
                g |-> explode(sound(sound(g, "BOULDER"), "MONSTER_DIED"), dst)]
          [] t \in WaterTiles ->
               [ok |-> TRUE,
                g |-> sound(explode(clear(g, src), dst), "BOULDER")]
          [] OTHER -> [ok |-> FALSE, g |-> g]

\* push(src, dir): push the boulder at src
push(g, src, dir) ==
    LET dst == vmove(src, dir)
        t == get(g, dst).tile
    IN  CASE t = TILE_EMPTY ->
               [ok |-> TRUE,
                g |-> sound(shape(clear(g, src), dst, TILE_BOULDER, 0), "BOULDER")]
          [] t \in MonsterTiles ->
               [ok |-> FALSE,
                g |-> explode(sound(sound(g, "BOULDER"), "MONSTER_DIED"), dst)]
          [] t \in WaterTiles ->
               [ok |-> FALSE,
                g |-> sound(explode(clear(g, src), dst), "BOULDER")]
          [] OTHER -> [ok |-> FALSE, g |-> g]

\* a projectile that stays in the cell it leaves
leave_source_stays(g, bo, src, water) == g

\* the first statement of update_arrow and update_bolt: a wet projectile
\* leaves water behind.  Its two rnd() calls are arguments of one call, which
\* the build may evaluate in either order.
leave_source(g, bo, src, water) ==
    IF water
    THEN LET r1 == rnd_val(g)
             r2 == rnd_val(rnd_adv(g))
             g2 == rnd_adv(rnd_adv(g))
         IN  IF bo = "ltr"
             THEN shape(g2, src, TILE_WATER_0 + (r1 % 2), 16 + (r2 % 8))
             ELSE shape(g2, src, TILE_WATER_0 + (r2 % 2), 16 + (r1 % 8))
    ELSE clear(g, src)

\* update_arrow that re-arms the monster it hurts
update_arrow_rearms(g, bo, src, dir, water) ==
    LET g1 == leave_source(g, bo, src, water)
        dst == vmove(src, dir)
        cell == get(g1, dst)
        t == cell.tile
    IN  IF ~visible(g1, dst) THEN g1
        ELSE CASE t = TILE_EMPTY \/ t \in ExplosionTiles ->
                    shape(g1, dst, TILE_ARROW_N + dir - 1, 2)
               [] t \in WaterTiles ->
                    shape(g1, dst, TILE_WARROW_N + dir - 1, 2)
               [] t = TILE_MONSTER_0 ->
                    explode(sound(g1, "MONSTER_DIED"), dst)
               [] t \in {TILE_MONSTER_1, TILE_MONSTER_2, TILE_MONSTER_3} ->
                    shape(sound(g1, "MONSTER_HURT"), dst, t - 1, 2)
               [] t \in {TILE_GRASS_0, TILE_GRASS_1, TILE_RUIN_0, TILE_RUIN_1} ->
                    explode(g1, dst)
               [] OTHER -> g1

update_arrow(g, bo, src, dir, water) ==
    LET g1 == leave_source(g, bo, src, water)
        dst == vmove(src, dir)
        cell == get(g1, dst)
        t == cell.tile
    IN  IF ~visible(g1, dst) THEN g1
        ELSE CASE t = TILE_EMPTY \/ t \in ExplosionTiles ->
                    shape(g1, dst, TILE_ARROW_N + dir - 1, 2)
               [] t \in WaterTiles ->
                    shape(g1, dst, TILE_WARROW_N + dir - 1, 2)
               [] t = TILE_MONSTER_0 ->
                    explode(sound(g1, "MONSTER_DIED"), dst)
               [] t \in {TILE_MONSTER_1, TILE_MONSTER_2, TILE_MONSTER_3} ->
                    put(sound(g1, "MONSTER_HURT"), dst, Cell(t - 1, cell.tick))
               [] t \in {TILE_GRASS_0, TILE_GRASS_1, TILE_RUIN_0, TILE_RUIN_1} ->
                    explode(g1, dst)
               [] OTHER -> g1

update_bolt(g, bo, src, dir, water) ==
    LET g1 == leave_source(g, bo, src, water)
        dst == vmove(src, dir)
        cell == get(g1, dst)
        t == cell.tile
    IN  IF ~visible(g1, dst) THEN g1
        ELSE CASE t = TILE_EMPTY \/ t \in ExplosionTiles ->
                    shape(g1, dst, TILE_BOLT_N + dir - 1, 2)
               [] t \in WaterTiles ->
                    shape(g1, dst, TILE_WBOLT_N + dir - 1, 2)
               [] t = TILE_MONSTER_0 ->
                    explode(sound(g1, "MONSTER_DIED"), dst)
               [] t \in {TILE_MONSTER_1, TILE_MONSTER_2, TILE_MONSTER_3} ->
                    put(sound(g1, "MONSTER_HURT"), dst, Cell(t - 1, cell.tick))
               [] t \in PlayerTiles -> hurt(g1, 5)
               [] OTHER -> g1

update_bolt_trap(g, bo, src, cell) ==
    IF cell.tile = TILE_BOLT_TRAP_0
    THEN shape(g, src, TILE_BOLT_TRAP_1, 4)
    ELSE LET g1 == update_bolt(g, bo, src, DIR_NORTH, FALSE)
             g2 == update_bolt(g1, bo, src, DIR_EAST, FALSE)
             g3 == update_bolt(g2, bo, src, DIR_SOUTH, FALSE)
             g4 == update_bolt(g3, bo, src, DIR_WEST, FALSE)
         IN  shape(g4, src, TILE_BOLT_TRAP_0, 30 - 4)

update_shrine(g, src, cell) ==
    IF cell.tile = TILE_SHRINE_3
    THEN LET g1 == shape(g, src, TILE_SHRINE_0, 60)
             dst == vmove(src, random_dir(g1))
             g2 == rnd_adv(g1)
         IN  IF get(g2, dst).tile = TILE_EMPTY
             THEN shape(sound(g2, "SPAWN"), dst, TILE_SPAWN_0, 2)
             ELSE g2
    ELSE shape(g, src, cell.tile + 1, 60)

\* update_monster whose attack hurts by the tier
update_monster_tier(g, src, cell) ==
    LET dst == vmove(src, chase_dir(g, src, g.player))
        g1 == chase_adv(g, src, g.player)
        t == get(g1, dst).tile
    IN  CASE t = TILE_EMPTY -> shape(clear(g1, src), dst, cell.tile, 16)
          [] t \in PlayerTiles ->
               shape(explode(hurt(g1, cell.tile - TILE_MONSTER_0), src),
                     dst, TILE_PLAYER_DEFEND, 5)
          [] OTHER -> shape(g1, src, cell.tile, 16)

\* update_monster whose move does not re-arm the monster
update_monster_hasty(g, src, cell) ==
    LET dst == vmove(src, chase_dir(g, src, g.player))
        g1 == chase_adv(g, src, g.player)
        t == get(g1, dst).tile
    IN  CASE t = TILE_EMPTY -> shape(clear(g1, src), dst, cell.tile, 0)
          [] t \in PlayerTiles ->
               shape(explode(hurt(g1, cell.tile - TILE_MONSTER_0 + 1), src),
                     dst, TILE_PLAYER_DEFEND, 5)
          [] OTHER -> shape(g1, src, cell.tile, 16)

update_monster(g, src, cell) ==
    LET dst == vmove(src, chase_dir(g, src, g.player))
        g1 == chase_adv(g, src, g.player)
        t == get(g1, dst).tile
    IN  CASE t = TILE_EMPTY -> shape(clear(g1, src), dst, cell.tile, 16)
          [] t \in PlayerTiles ->
               shape(explode(hurt(g1, cell.tile - TILE_MONSTER_0 + 1), src),
                     dst, TILE_PLAYER_DEFEND, 5)
          [] OTHER -> shape(g1, src, cell.tile, 16)

\* a blocked move that rests as long as a move
player_blocked_slow(g, src) ==
    [sound(shape(g, src, TILE_PLAYER_STAND, 5), "PLAYER_BLOCKED")
        EXCEPT !.player = src]

\* the label "blocked" of update_player
player_blocked(g, src) ==
    [sound(shape(g, src, TILE_PLAYER_STAND, 1), "PLAYER_BLOCKED")
        EXCEPT !.player = src]

\* the tail of update_player: move player to new position
player_moved(g, src, dst) ==
    [sound(shape(clear(g, src), dst, TILE_PLAYER_STAND, 5), "PLAYER_MOVED")
        EXCEPT !.player = dst]

update_player(g, in, bo, src) ==
    LET dir == input_dir(in)
        dst == vmove(src, dir)
        cell == get(g, dst)
        t == cell.tile
    IN  IF btn(in, BUTTON_A)
        THEN IF dir # DIR_NONE
             THEN shape(update_arrow(sound(g, "SHOOT"), bo, src, dir, FALSE),
                        src, TILE_PLAYER_SHOOT, 20)
             ELSE shape(g, src, TILE_PLAYER_SHOOT, 1)
        ELSE IF dir = DIR_NONE
        THEN [shape(g, src, TILE_PLAYER_STAND, 1) EXCEPT !.player = src]
        ELSE CASE t = TILE_EMPTY -> player_moved(g, src, dst)
               [] t \in {TILE_GRASS_0, TILE_GRASS_1} ->
                    player_blocked(explode(g, dst), src)
               [] t \in MonsterTiles ->
                    player_blocked(
                        explode(sound(hurt(g, t - TILE_MONSTER_0 + 1),
                                      "MONSTER_DIED"), dst), src)
               [] t = TILE_TELEPORT ->
                    LET r == teleport(g, dst, dir)
                    IN  IF r.ok THEN r.g ELSE player_blocked(g, src)
               [] t = TILE_BOULDER ->
                    LET r == push(g, dst, dir)
                    IN  IF ~r.ok THEN player_blocked(r.g, src)
                        ELSE sound(shape(clear(r.g, src), dst,
                                         TILE_PLAYER_STAND, 10), "PLAYER_MOVED")
               [] t = TILE_LIFE ->
                    player_moved(sound([g EXCEPT !.life = mini(999, @ + 5)],
                                       "PICKUP"), src, dst)
               [] t = TILE_AMMO ->
                    player_moved(sound([g EXCEPT !.ammo = mini(999, @ + 5)],
                                       "PICKUP"), src, dst)
               [] t = TILE_FLASK ->
                    player_moved(sound([g EXCEPT !.flasks = mini(999, @ + 1)],
                                       "PICKUP"), src, dst)
               [] OTHER -> player_blocked(g, src)

\* the tiles update_cell has a case for
BehaviourTiles ==
    PlayerTiles \cup MonsterTiles \cup WaterTiles \cup ExplosionTiles
    \cup (TILE_ARROW_N .. TILE_WARROW_N + 3) \cup (TILE_BOLT_N .. TILE_WBOLT_N + 3)
    \cup {TILE_BOLT_TRAP_0, TILE_BOLT_TRAP_1}
    \cup (TILE_SPAWN_0 .. TILE_SPAWN_3) \cup (TILE_PSPAWN_0 .. TILE_PSPAWN_3)
    \cup (TILE_SHRINE_0 .. TILE_SHRINE_3)

\* the guard of update_cell: the cell's tick is the game tick
eligible(g, v) == get(g, v).tick = g.tick

update_cell(g, in, bo, v) ==
    LET cell == get(g, v)
        t == cell.tile
    IN  IF ~eligible(g, v) THEN g
        ELSE CASE t \in PlayerTiles -> update_player(g, in, bo, v)
               [] t \in MonsterTiles -> update_monster(g, v, cell)
               [] t \in TILE_ARROW_N .. TILE_ARROW_N + 3 ->
                    update_arrow(g, bo, v, DIR_NORTH + (t - TILE_ARROW_N), FALSE)
               [] t \in TILE_WARROW_N .. TILE_WARROW_N + 3 ->
                    update_arrow(g, bo, v, DIR_NORTH + (t - TILE_WARROW_N), TRUE)
               [] t \in TILE_BOLT_N .. TILE_BOLT_N + 3 ->
                    update_bolt(g, bo, v, DIR_NORTH + (t - TILE_BOLT_N), FALSE)
               [] t \in TILE_WBOLT_N .. TILE_WBOLT_N + 3 ->
                    update_bolt(g, bo, v, DIR_NORTH + (t - TILE_WBOLT_N), TRUE)
               [] t \in {TILE_BOLT_TRAP_0, TILE_BOLT_TRAP_1} ->
                    update_bolt_trap(g, bo, v, cell)
               [] t = TILE_WATER_0 ->
                    shape(rnd_adv(g), v, TILE_WATER_1, 16 + (rnd_val(g) % 8))
               [] t = TILE_WATER_1 ->
                    shape(rnd_adv(g), v, TILE_WATER_0, 16 + (rnd_val(g) % 8))
               [] t \in {TILE_EXPLOSION_0, TILE_EXPLOSION_1, TILE_EXPLOSION_2} ->
                    shape(g, v, t + 1, 2)
               [] t = TILE_EXPLOSION_3 -> clear(g, v)
               [] t \in {TILE_SPAWN_0, TILE_SPAWN_1, TILE_SPAWN_2} ->
                    shape(g, v, t + 1, 2)
               [] t = TILE_SPAWN_3 ->
                    shape(rnd_adv(g), v, TILE_MONSTER_0 + (rnd_val(g) % 4), 10)
               [] t \in {TILE_PSPAWN_0, TILE_PSPAWN_1, TILE_PSPAWN_2} ->
                    shape(g, v, t + 1, 2)
               [] t = TILE_PSPAWN_3 -> shape(g, v, TILE_PLAYER_STAND, 1)
               [] t \in TILE_SHRINE_0 .. TILE_SHRINE_3 -> update_shrine(g, v, cell)
               [] OTHER -> g

\* the i-th cell of the viewport at base, in the row-major order of the loops
view_cell(base, i) == vadd(base, vec2(i % VIEW_COLS, i \div VIEW_COLS))

ViewIndex == 0 .. (VIEW_ROWS * VIEW_COLS - 1)

\* update_game, "update the visible part of the map": the state after the
\* cells i.. of the viewport, the cells whose behaviour ran (hits) and the
\* state each of them was dispatched in (pres)
RECURSIVE sweep(_, _, _, _, _, _, _)
sweep(g, in, bo, base, i, hits, pres) ==
    IF i >= VIEW_ROWS * VIEW_COLS THEN [g |-> g, hits |-> hits, pres |-> pres]
    ELSE LET v == view_cell(base, i)
             ran == eligible(g, v) /\ get(g, v).tile \in BehaviourTiles
         IN  sweep(update_cell(g, in, bo, v), in, bo, base, i + 1,
                   IF ran THEN Append(hits, v) ELSE hits,
                   IF ran THEN Append(pres, g) ELSE pres)

\* update_game, "hibernate the old screen"
RECURSIVE hibernate_view(_, _, _)
hibernate_view(g, base, i) ==
    IF i >= VIEW_ROWS * VIEW_COLS THEN g
    ELSE hibernate_view(hibernate(g, view_cell(base, i)), base, i + 1)

\* leave_screen with the tick reset before the hibernation
leave_screen_reset_first(g, base) ==
    IF ~veq(base, vbase(g.player))
    THEN LET g0 == [g EXCEPT !.tick = 0]
         IN  hibernate(hibernate_view(g0, base, 0), g0.player)
    ELSE [g EXCEPT !.tick = (@ + 1) % 256]

\* leave_screen that counts on instead of resetting the tick
leave_screen_no_reset(g, base) ==
    IF ~veq(base, vbase(g.player))
    THEN [hibernate(hibernate_view(g, base, 0), g.player)
             EXCEPT !.tick = (@ + 1) % 256]
    ELSE [g EXCEPT !.tick = (@ + 1) % 256]

\* update_game, "check if we have left the screen"
leave_screen(g, base) ==
    IF ~veq(base, vbase(g.player))
    THEN [hibernate(hibernate_view(g, base, 0), g.player) EXCEPT !.tick = 0]
    ELSE [g EXCEPT !.tick = (@ + 1) % 256]

\* update_game, "check if we have to move the screen"
PAN_X == 2
PAN_Y_fast == PAN_X
PAN_Y == 1

pan(view, base) ==
    LET x1 == IF view.x < base.x THEN view.x + PAN_X ELSE view.x
        x2 == IF x1 > base.x THEN x1 - PAN_X ELSE x1
        y1 == IF view.y < base.y THEN view.y + PAN_Y ELSE view.y
        y2 == IF y1 > base.y THEN y1 - PAN_Y ELSE y1
    IN  vec2(x2, y2)

\* ------------------------------------------------------------- the level
\* world.bmp is an asset outside the source.  A level is "none" (the file is
\* missing, SDL_LoadBMP fails) or a bitmap of MAP_COLS x MAP_ROWS pixels:
\* a small arena of pixels at an origin, every other pixel of one colour.
\* Pixel colours are named by the comment of their case in start_game.
VC == VIEW_COLS
VR == VIEW_ROWS

Arena(lvl) ==
    CASE lvl = "cross" ->
           \* the player in the corner of page (0,0), floor east and south of it
           [fill |-> "wall", ox |-> VC - 2, oy |-> VR - 1,
            rows |-> << <<"water", "player", "floor">>,
                        <<"wall", "floor", "wall">> >>]
      [] lvl = "death" ->
           \* the player between three tier-3 monsters
           [fill |-> "wall", ox |-> 0, oy |-> 0,
            rows |-> << <<"monster 3", "player", "monster 3">>,
                        <<"wall", "monster 3", "wall">> >>]
      [] lvl \in {"hunt 0", "hunt 1", "hunt 2", "hunt 3"} ->
           \* a corridor in the bottom row of page (0,0): the player at its
           \* west end, a monster at its east end, one cell between them
           [fill |-> "wall", ox |-> VC - 3, oy |-> VR - 1,
            rows |-> << <<"player", "floor",
                          CASE lvl = "hunt 0" -> "monster 0"
                            [] lvl = "hunt 1" -> "monster 1"
                            [] lvl = "hunt 2" -> "monster 2"
                            [] OTHER -> "monster 3">> >>]
      [] lvl = "range" ->
           \* a corridor to the east edge of page (0,0), a monster in the
           \* first cell of page (1,0)
           [fill |-> "wall", ox |-> VC - 3, oy |-> VR - 1,
            rows |-> << <<"player", "floor", "floor", "monster 2">> >>]
      [] lvl = "alley" ->
           \* the same corridor with water in the last cell of page (0,0)
           [fill |-> "wall", ox |-> VC - 3, oy |-> VR - 1,
            rows |-> << <<"player", "floor", "water", "monster 2">> >>]
      [] lvl = "trap" ->
           \* a bolt trap that is the fifth pixel to draw a random number,
           \* the player west of it, a monster in the first cell of page (1,0)
           [fill |-> "floor", ox |-> VC - 4, oy |-> VR - 2,
            rows |-> << <<"wall", "wall", "wall", "wall", "floor">>,
                        <<"player", "floor", "bolt trap", "floor", "monster 2">> >>]
      [] lvl = "boulder" ->
           \* the player in the last column of page (0,0): west of it a
           \* boulder before water, east of it a boulder before floor
           [fill |-> "wall", ox |-> VC - 3, oy |-> VR - 1,
            rows |-> << <<"water", "boulder", "player", "boulder", "floor">> >>]
      [] lvl = "porch" ->
           \* a single teleporter east of the player
           [fill |-> "wall", ox |-> VC - 3, oy |-> VR - 1,
            rows |-> << <<"player", "teleport", "floor">> >>]
      [] lvl = "gate" ->
           \* a teleporter east of the player on page (0,0) and a second one
           \* on page (1,0), with a wall pixel east of the second
           [fill |-> "wall", ox |-> VC - 3, oy |-> VR - 1,
            rows |-> << <<"player", "teleport", "floor", "floor", "teleport">> >>]
      [] lvl = "garden" ->
           \* grass west of the player and a ruin east of it
           [fill |-> "wall", ox |-> VC - 3, oy |-> VR - 1,
            rows |-> << <<"grass", "player", "ruin">> >>]
      [] lvl = "stalk" ->
           \* a monster behind a wall in the player's row and two monsters
           \* diagonally off the player
           [fill |-> "wall", ox |-> VC - 3, oy |-> VR - 2,
            rows |-> << <<"player", "wall", "monster 1">>,
                        <<"floor", "monster 0", "monster 0">> >>]
      [] lvl = "siege" ->
           \* the player between a tier-1 and a tier-2 monster
           [fill |-> "wall", ox |-> VC - 3, oy |-> VR - 1,
            rows |-> << <<"monster 1", "player", "monster 2">> >>]
      [] lvl = "drawn" ->
           \* the bitmap that the load harness drew
           probe.arg
      [] OTHER ->
           [fill |-> "floor", ox |-> 0, oy |-> 0, rows |-> << <<"floor">> >>]

\* the levels of whole games: without entities, with the ground to walk and
\* cross a page, and with monsters around the player
BaseLevels == {"none", "cross", "death"}

\* levels with one situation each
HuntLevels == {"hunt 0", "hunt 1", "hunt 2", "hunt 3"}
SceneLevels ==
    HuntLevels \cup {"range", "alley", "trap", "boulder", "porch",
                     "gate", "garden", "stalk", "siege"}

Levels == BaseLevels \cup SceneLevels

\* the pixel at (x, y) of the bitmap with arena a
PixelIn(a, x, y) ==
    IF (y - a.oy + 1) \in 1 .. Len(a.rows) /\ (x - a.ox + 1) \in 1 .. Len(a.rows[1])
    THEN a.rows[y - a.oy + 1][x - a.ox + 1] ELSE a.fill

Pixel(lvl, x, y) == CHOOSE c \in {PixelIn(a, x, y) : a \in {Arena(lvl)}} : TRUE

\* start_game: the struct literal "setup new game state"
new_game(snd) ==
    [paused |-> FALSE, dead |-> FALSE, rand |-> 0, tick |-> 0,
     player |-> invalid_position, view |-> vec2(0, 0),
     life |-> 10, ammo |-> 5, flasks |-> 0, keys |-> 0, gold |-> 0,
     cells |-> [y \in 0 .. MAP_ROWS - 1 |->
                  [x \in 0 .. MAP_COLS - 1 |-> Cell(TILE_EMPTY, 0)]],
     playing |-> snd]

\* start_game: the switch over the pixel's colour
load_pixel(g, v, colour) ==
    LET r == rnd_val(g)
        g1 == rnd_adv(g)
    IN  CASE colour = "wall" -> shape(g1, v, TILE_WALL_0 + (r % 4), 0)
          [] colour = "boulder" -> shape(g, v, TILE_BOULDER, 0)
          [] colour = "ruin" -> shape(g1, v, TILE_RUIN_0 + (r % 2), 0)
          [] colour = "tree" -> shape(g1, v, TILE_TREE_0 + (r % 2), 0)
          [] colour = "dead tree" -> shape(g1, v, TILE_TREE_2 + (r % 2), 0)
          [] colour = "grass" -> shape(g1, v, TILE_GRASS_0 + (r % 2), 0)
          [] colour = "water" -> shape(g1, v, TILE_WATER_0 + (r % 2), 16)
          [] colour = "player" ->
               [shape(g, v, TILE_PLAYER_STAND, 1) EXCEPT !.player = v]
          [] colour = "monster 0" -> shape(g, v, TILE_MONSTER_0, 1)
          [] colour = "monster 1" -> shape(g, v, TILE_MONSTER_1, 1)
          [] colour = "monster 2" -> shape(g, v, TILE_MONSTER_2, 1)
          [] colour = "monster 3" -> shape(g, v, TILE_MONSTER_3, 1)
          [] colour = "bolt trap" -> shape(g1, v, TILE_BOLT_TRAP_0, r % 16)
          [] colour = "shrine" -> shape(g1, v, TILE_SHRINE_0, 30 + (r % 16))
          [] colour = "teleport" -> shape(g, v, TILE_TELEPORT, 0)
          [] OTHER -> clear(g, v)


\* start_game: the inner loop (x) and the outer loop (y) over the pixels.
\* (h is the state after one iteration: binding it makes TLC compute it
\* before the next iteration.)
RECURSIVE load_row(_, _, _, _)
load_row(g, lvl, y, x) ==
    IF x >= MAP_COLS THEN g
    ELSE CHOOSE r \in {load_row(h, lvl, y, x + 1) :
                         h \in {load_pixel(g, vec2(x, y), c) :
                                  c \in {Pixel(lvl, x, y)}}} : TRUE

RECURSIVE load_pixels(_, _, _)
load_pixels(g, lvl, y) ==
    IF y >= MAP_ROWS THEN g
    ELSE CHOOSE r \in {load_pixels(h, lvl, y + 1) :
                         h \in {load_row(g, lvl, y, 0)}} : TRUE

\* start_game: "place solid walls (wall x)", inner and outer loop
RECURSIVE place_solid_row(_, _, _)
place_solid_row(g, y, x) ==
    IF x >= MAP_COLS THEN g
    ELSE CHOOSE r \in {place_solid_row(h, y, x + 1) :
                         h \in {IF enclosed(g, vec2(x, y))
                                THEN shape(g, vec2(x, y), TILE_WALL_X, 0)
                                ELSE g}} : TRUE

RECURSIVE place_solid_walls(_, _)
place_solid_walls(g, y) ==
    IF y >= MAP_ROWS THEN g
    ELSE CHOOSE r \in {place_solid_walls(h, y + 1) :
                         h \in {place_solid_row(g, y, 0)}} : TRUE

\* start_game from "state.game.view = vbase(state.game.player)" on
start_view(g) == place_solid_walls([g EXCEPT !.view = vbase(g.player)], 0)

start_game(g, lvl) ==
    IF lvl = "none" THEN new_game(g.playing)
    ELSE start_view(load_pixels(new_game(g.playing), lvl, 0))

\* ------------------------------------------------------------ update_game
\* a restart while A is held
restart_check_held(g, in, lvl) ==
    IF g.dead /\ btn(in, BUTTON_A) THEN start_game(g, lvl) ELSE g

restart_check(g, in, lvl) ==
    IF g.dead /\ btnp(in, BUTTON_A) THEN start_game(g, lvl) ELSE g

pause_check(g, in) ==
    IF ~g.dead /\ btnp(in, BUTTON_X) THEN [g EXCEPT !.paused = ~@] ELSE g

\* update_game returns: the state it leaves, which of its branches ran
\* ("paused", "pan", "sweep", or "leave" for a sweep that ended in
\* hibernation), the cells whose behaviour ran, the player's base rectangle
\* it computed and the state between the sweep and the hibernation check
NoMid == [cells |-> << >>, tick |-> 0, player |-> invalid_position]
MidOf(g) == [cells |-> g.cells, tick |-> g.tick, player |-> g.player]

\* "if (state.game.paused) return;"
skip_update(g) == g.paused

\* a paused step that still advances the tick
paused_step_ticks(g, base) ==
    [g |-> [g EXCEPT !.tick = (@ + 1) % 256],
     what |-> "paused", hits |-> << >>, pres |-> << >>, base |-> base,
     mid |-> NoMid]

paused_step(g, base) ==
    [g |-> g, what |-> "paused", hits |-> << >>, pres |-> << >>, base |-> base,
     mid |-> NoMid]

pan_step(g, base) ==
    [g |-> [g EXCEPT !.view = pan(@, base)],
     what |-> "pan", hits |-> << >>, pres |-> << >>, base |-> base,
     mid |-> NoMid]

\* the rest of update_game after the loops of the sweep have left sw
after_sweep(sw, base) ==
    [g |-> leave_screen(sw.g, base),
     what |-> IF veq(base, vbase(sw.g.player)) THEN "sweep" ELSE "leave",
     hits |-> sw.hits, pres |-> sw.pres, base |-> base,
     mid |-> IF veq(base, vbase(sw.g.player)) THEN NoMid ELSE MidOf(sw.g)]

sweep_step(g, in, bo, base) == after_sweep(sweep(g, in, bo, base, 0, << >>, << >>), base)

\* update_game from "if (state.game.paused) return;" on
after_checks(g, in, bo) ==
    LET base == vbase(g.player)
    IN  IF skip_update(g) THEN paused_step(g, base)
        ELSE IF ~veq(base, g.view) THEN pan_step(g, base)
        ELSE sweep_step(g, in, bo, base)

update_game(g, in, bo, lvl) ==
    after_checks(pause_check(restart_check(g, in, lvl), in), in, bo)

\* ---------------------------------------------------------- specification
\* state.game of a threaded state, and the threaded state of the variables
GameOf(g) ==
    [paused |-> g.paused, dead |-> g.dead, rand |-> g.rand, tick |-> g.tick,
     player |-> g.player, view |-> g.view, life |-> g.life, ammo |-> g.ammo,
     flasks |-> g.flasks, keys |-> g.keys, gold |-> g.gold, cells |-> g.cells]

Whole(gm, snd) ==
    [paused |-> gm.paused, dead |-> gm.dead, rand |-> gm.rand, tick |-> gm.tick,
     player |-> gm.player, view |-> gm.view, life |-> gm.life, ammo |-> gm.ammo,
     flasks |-> gm.flasks, keys |-> gm.keys, gold |-> gm.gold,
     cells |-> gm.cells, playing |-> snd]

\* the button states the input system delivers to a tick
Inputs ==
    { {}, {BUTTON_UP}, {BUTTON_DOWN}, {BUTTON_LEFT}, {BUTTON_RIGHT},
      {BUTTON_A}, {BUTTON_A, BUTTON_RIGHT}, {BUTTON_X} }

\* the argument order shows only where a wet projectile leaves water behind:
\* a level on which no projectile meets water is explored under one order
Builds == {"ltr", "rtl"}
WetLevels == {"alley"}
BuildsOf(lvl) == IF lvl \in WetLevels THEN Builds ELSE {"ltr"}

NoProbe == [op |-> "none"]

\* last, before the first update_game
NoStep ==
    [what |-> "start", hits |-> << >>, pres |-> << >>, base |-> vec2(0, 0),
     mid |-> NoMid,
     from |-> invalid_position, restart |-> FALSE, wasdead |-> FALSE,
     waspaused |-> FALSE, pans |-> 0]

\* sweeps explored: MaxSteps with every input, on the level without
\* entities LongSteps and on the levels with four-frame sequences SpawnSteps
\* with the buttons released
Budget(lvl, b) ==
    CASE lvl = "none" /\ b = {} -> LongSteps
      [] lvl \in {"gate", "siege"} /\ b = {} -> SpawnSteps
      [] OTHER -> MaxSteps

\* the button states explored on a level: all of them in a whole game, the
\* ones that bring its situation about on a level made for one
InputsOf(lvl) ==
    CASE lvl \in HuntLevels \cup {"range", "alley"} ->
           { {}, {BUTTON_A, BUTTON_RIGHT} }
      [] lvl = "trap" -> { {}, {BUTTON_RIGHT} }
      [] lvl \in {"boulder", "porch", "garden"} ->
           { {}, {BUTTON_LEFT}, {BUTTON_RIGHT} }
      [] lvl = "gate" -> { {}, {BUTTON_RIGHT} }
      [] lvl = "stalk" -> { {}, {BUTTON_DOWN} }
      [] lvl = "siege" -> { {}, {BUTTON_A} }
      [] OTHER -> Inputs

Init ==
    /\ level \in Levels
    /\ build \in BuildsOf(level)
    /\ game = GameOf(start_game([playing |-> {}], level))
    /\ playing = {}
    /\ input = [down |-> {}, prev |-> {}]
    /\ steps = 0
    /\ last = NoStep
    /\ probe = NoProbe

\* the variables after an update_game that returned r
Ticked(in, r) ==
    /\ input' = in
    /\ game' = GameOf(r.g)
    /\ playing' = r.g.playing
    /\ last' = [what |-> r.what, hits |-> r.hits, pres |-> r.pres,
                base |-> r.base,
                mid |-> r.mid, from |-> game.player,
                restart |-> game.dead /\ btnp(in, BUTTON_A),
                wasdead |-> game.dead, waspaused |-> game.paused,
                pans |-> CASE r.what = "pan" -> last.pans + 1
                           [] r.what = "leave" -> 0
                           [] game.dead /\ btnp(in, BUTTON_A) -> 0
                           [] OTHER -> last.pans]
    /\ steps' = IF r.what \in {"sweep", "leave"} THEN steps + 1 ELSE steps

\* update_game with the buttons in
Update(in) == Ticked(in, update_game(Whole(game, {}), in, build, level))

\* one iteration of update_ticks: on_tick() with the buttons b down; the
\* mixer has drained the sounds of the tick before
Tick(b) ==
    /\ b \in InputsOf(level)
    /\ steps < Budget(level, b)
    /\ Update([down |-> b, prev |-> input.down])
    /\ UNCHANGED <<level, build, probe>>

Next == \E b \in Inputs : Tick(b)

Spec == Init /\ [][Next]_vars

\* ------------------------------------------------- the operation harness
\* The grid operations and hurt are functions of the game state.  SpecOps
\* applies them one at a time, at positions inside and (far) outside the
\* grid, to the game as loaded at a sample of tick values; probe records the
\* operation, its arguments, the state before it and what it returned.
ProbePositions ==
    { vec2(0, 0), vec2(MAP_COLS - 1, MAP_ROWS - 1), vec2(VC - 1, VR - 1),
      vec2(-1, 0), vec2(0, -1), vec2(MAP_COLS, 0), vec2(0, MAP_ROWS),
      vec2(MAP_COLS, MAP_ROWS), vec2(-Far, -Far), vec2(Far, 1), vec2(1, Far),
      vec2(-Far, Far) }

ProbeCells == { Cell(TILE_EMPTY, 0), Cell(TILE_MONSTER_2, 9) }
ProbeTiles == { TILE_EXPLOSION_0, TILE_BOULDER }
ProbeTicks == { 7, 255 }
ProbeDelays == { 0, 2, 250 }
ProbeDamage == { 0, 1, 4, 5, 9, 10, 11, Far }

Probe(op, v, arg, before, result) ==
    [op |-> op, pos |-> v, arg |-> arg, before |-> before, result |-> result]

InitOps ==
    /\ level \in BaseLevels \ {"none"}
    /\ build \in BuildsOf(level)
    /\ \E t \in ProbeTicks :
           game = [GameOf(start_game([playing |-> {}], level)) EXCEPT !.tick = t]
    /\ playing = {}
    /\ input = [down |-> {}, prev |-> {}]
    /\ steps = 0
    /\ last = NoStep
    /\ probe = NoProbe

\* apply one operation: r is the threaded state it leaves
Applied(op, v, arg, r, result) ==
    /\ steps < MaxOps
    /\ game' = GameOf(r)
    /\ playing' = r.playing
    /\ probe' = Probe(op, v, arg, game, result)
    /\ steps' = steps + 1
    /\ UNCHANGED <<input, level, build, last>>

OpGet(v) ==
    LET g == Whole(game, {}) IN Applied("get", v, 0, g, get(g, v))

OpPut(v, c) ==
    LET g == Whole(game, {}) IN Applied("put", v, c, put(g, v, c), 0)

OpClear(v) ==
    LET g == Whole(game, {}) IN Applied("clear", v, 0, clear(g, v), 0)

OpShape(v, tile, ticks) ==
    LET g == Whole(game, {})
    IN  Applied("shape", v, [tile |-> tile, ticks |-> ticks],
                shape(g, v, tile, ticks), 0)

OpHibernate(v) ==
    LET g == Whole(game, {}) IN Applied("hibernate", v, 0, hibernate(g, v), 0)

OpHurt(n) ==
    LET g == Whole(game, {}) IN Applied("hurt", game.player, n, hurt(g, n), 0)

NextOps ==
    \/ \E v \in ProbePositions : OpGet(v)
    \/ \E v \in ProbePositions : \E c \in ProbeCells : OpPut(v, c)
    \/ \E v \in ProbePositions : OpClear(v)
    \/ \E v \in ProbePositions : \E t \in ProbeTiles : \E d \in ProbeDelays :
           OpShape(v, t, d)
    \/ \E v \in ProbePositions : OpHibernate(v)
    \/ \E n \in ProbeDamage : OpHurt(n)

SpecOps == InitOps /\ [][NextOps]_vars

\* SpecClock: shape and then hibernate of one cell inside the grid, for every
\* value of the 8-bit tick and every 8-bit delay
ClockPos == vec2(VC - 1, VR - 1)

InitClock ==
    /\ level = "cross"
    /\ build = "ltr"
    /\ \E t \in 0 .. 255 :
           game = [GameOf(start_game([playing |-> {}], level)) EXCEPT !.tick = t]
    /\ playing = {}
    /\ input = [down |-> {}, prev |-> {}]
    /\ steps = 0
    /\ last = NoStep
    /\ probe = NoProbe

ClockShape(d) == probe.op = "none" /\ OpShape(ClockPos, TILE_EXPLOSION_0, d)

ClockHibernate == probe.op = "shape" /\ OpHibernate(ClockPos)

NextClock ==
    \/ \E d \in 0 .. 255 : ClockShape(d)
    \/ ClockHibernate

SpecClock == InitClock /\ [][NextClock]_vars

\* SpecPan: update_game from a view that is off the player's base rectangle
\* by any offset (dx, dy) with dx even, the buttons released
PanOffsets ==
    { vec2(PAN_X * i, j) : i \in -PanReach .. PanReach, j \in -PanReach .. PanReach }

InitPan ==
    /\ level = "cross"
    /\ build = "ltr"
    /\ \E d \in PanOffsets :
           LET g == GameOf(start_game([playing |-> {}], level))
           IN  /\ game = [g EXCEPT !.view = vsub(vbase(g.player), d)]
               /\ probe = Probe("pan", d, 0, g, 0)
    /\ playing = {}
    /\ input = [down |-> {}, prev |-> {}]
    /\ steps = 0
    /\ last = NoStep

PanTick == probe.op = "pan" /\ Tick({})

NextPan == PanTick

SpecPan == InitPan /\ [][NextPan]_vars

\* --------------------------------------------------------- the load harness
\* start_game is a function of the bitmap.  SpecLoad loads every bitmap that
\* is wall outside a window of LoadSide x LoadSide pixels (the size of the
\* neighbourhood of enclosed), each of them wall or floor and at most
\* LoadFloors of them floor, with the window in the corner of the grid, one
\* cell off it, and in the opposite corner; probe holds the bitmap (level
\* "drawn").
LoadSide == 3

LoadOrigins ==
    { vec2(0, 0), vec2(1, 1), vec2(MAP_COLS - LoadSide, MAP_ROWS - LoadSide) }

LoadWindows ==
    { w \in [1 .. LoadSide -> [1 .. LoadSide -> {"wall", "floor"}]] :
        Cardinality({ rc \in (1 .. LoadSide) \X (1 .. LoadSide) :
                        w[rc[1]][rc[2]] = "floor" }) <= LoadFloors }

InitLoad ==
    /\ level = "drawn"
    /\ build = "ltr"
    /\ \E o \in LoadOrigins : \E win \in LoadWindows :
           probe = Probe("load", o,
                         [fill |-> "wall", ox |-> o.x, oy |-> o.y, rows |-> win],
                         0, 0)
    /\ game = GameOf(start_game([playing |-> {}], level))
    /\ playing = {}
    /\ input = [down |-> {}, prev |-> {}]
    /\ steps = 0
    /\ last = NoStep

\* the first tick of the loaded game
LoadTick == probe.op = "load" /\ steps = 0 /\ Tick({})

NextLoad == LoadTick

SpecLoad == InitLoad /\ [][NextLoad]_vars

\* --------------------------------------------------------- the twin harness
\* Two runs of the program on the same level.  The first is the one of the
\* variables; probe holds the second: its state.game (before), the buttons of
\* its last tick (result) and its phase (arg).  A "prior" second run plays a
\* game of its own until it is lost and is then restarted by the A button,
\* in the tick in which the first run takes its first step; from there on
\* ("restarted"), as from the start in a "fresh" second run, both runs get
\* the same buttons tick by tick.  The second run keeps sounds pending that
\* the first has drained.
TwinLevels == {"death", "alley"}
TwinSounds == {"EXPLODE", "SHOOT"}

\* the executable of the second run evaluates arguments as the first
other_build(bo) == IF bo = "ltr" THEN "rtl" ELSE "ltr"

twin_build(bo) == bo

\* state.game of the second run after an update_game with the buttons in
TwinUpdate(in) ==
    GameOf(update_game(Whole(probe.before, TwinSounds), in,
                       twin_build(build), level).g)

InitTwin ==
    /\ level \in TwinLevels
    /\ build \in BuildsOf(level)
    /\ game = GameOf(start_game([playing |-> {}], level))
    /\ \E phase \in IF level = "death" THEN {"prior", "fresh"} ELSE {"fresh"} :
           probe = Probe("twin", invalid_position, phase, game, {})
    /\ playing = {}
    /\ input = [down |-> {}, prev |-> {}]
    /\ steps = 0
    /\ last = NoStep

\* a tick of the second run's own game
TwinPrior(b) ==
    /\ probe.op = "twin" /\ probe.arg = "prior"
    /\ ~probe.before.dead
    /\ probe' = [probe EXCEPT !.before = TwinUpdate([down |-> b, prev |-> probe.result]),
                              !.result = b]
    /\ UNCHANGED <<game, playing, input, steps, last, level, build>>

\* the tick that restarts the second run and is the first of the first run
TwinStart(b) ==
    /\ probe.op = "twin" /\ probe.arg = "prior"
    /\ probe.before.dead
    /\ BUTTON_A \in b /\ BUTTON_A \notin probe.result
    /\ Update([down |-> b, prev |-> {}])
    /\ probe' = [probe EXCEPT !.before = TwinUpdate([down |-> b, prev |-> probe.result]),
                              !.result = b, !.arg = "restarted"]
    /\ UNCHANGED <<level, build>>

\* a tick of both runs with the same buttons
TwinTick(b) ==
    /\ probe.op = "twin" /\ probe.arg \in {"fresh", "restarted"}
    /\ b \in InputsOf(level)
    /\ steps < MaxSteps
    /\ Update([down |-> b, prev |-> input.down])
    /\ probe' = [probe EXCEPT !.before = TwinUpdate([down |-> b, prev |-> input.down]),
                              !.result = b]
    /\ UNCHANGED <<level, build>>

NextTwin ==
    \/ \E b \in Inputs : TwinPrior(b)
    \/ \E b \in Inputs : TwinStart(b)
    \/ \E b \in Inputs : TwinTick(b)

SpecTwin == InitTwin /\ [][NextTwin]_vars

\* ================================================================ claims
Abs(n) == IF n < 0 THEN -n ELSE n
Max(a, b) == IF a > b THEN a ELSE b
NoInput == [down |-> {}, prev |-> {}]
GridOps == {"get", "put", "clear", "shape", "hibernate"}

\* the cell at v would have its behaviour run by update_cell if the clock
\* stood at c (v holds a tile whose behaviour always changes the cell)
RunsAt(c, v) ==
    LET g == Whole([game EXCEPT !.tick = c], {})
    IN  update_cell(g, NoInput, build, v) # g

\* C1: at every position outside the grid, however far, get returns a
\* wall-kind cell, iswall holds, and put, clear, shape and hibernate leave
\* every cell of the grid as it was.
C1_OutOfBounds ==
    (probe.op \in GridOps /\ ~inside(probe.pos)) =>
        /\ game.cells = probe.before.cells
        /\ iswall(Whole(game, {}), probe.pos)
        /\ (probe.op = "get" => probe.result.tile \in WallTiles)

C1_Witness ==
    /\ probe.op = "hibernate"
    /\ probe.pos = vec2(-Far, Far)
    /\ game.tick = 7
    /\ level = "cross"

\* C2: after shape(pos, tile, delay) at clock t on a position inside the
\* grid, the cell's behaviour runs exactly when the clock is (t + delay) mod
\* 256 and at none of the other 255 clock values.
C2_ShapeWakesAtDelay ==
    (probe.op = "shape" /\ inside(probe.pos)) =>
        \A c \in 0 .. 255 :
            RunsAt(c, probe.pos) <=>
                (c = (probe.before.tick + probe.arg.ticks) % 256)

C2_Witness ==
    /\ probe.op = "shape"
    /\ probe.before.tick = 200
    /\ probe.arg.ticks = 100
    /\ RunsAt(44, probe.pos)

\* the delay a cell has left at clock g.tick: the number of increments of the
\* clock after which the cell is eligible
Remaining(g, v) ==
    CHOOSE d \in 0 .. 255 : eligible([g EXCEPT !.tick = (g.tick + d) % 256], v)

\* C3: a cell with delay d left when it is hibernated is, once the clock is
\* reset to 0, eligible again after exactly d increments of the clock,
\* whatever the old clock value was.
C3_HibernateKeepsDelay ==
    (probe.op = "hibernate" /\ inside(probe.pos)) =>
        LET d == Remaining(probe.before, probe.pos)
        IN  \A k \in 0 .. 255 : RunsAt((0 + k) % 256, probe.pos) <=> (k = d)

C3_Witness ==
    /\ probe.op = "hibernate"
    /\ probe.before.tick = 250
    /\ probe.before.cells[probe.pos.y][probe.pos.x].tick = 3
    /\ game.cells[probe.pos.y][probe.pos.x].tick = 9

\* C6: hurt(n) with n < life takes exactly n from life and does not mark
\* death; hurt(n) with n >= life sets life to 0 and marks the game dead,
\* whatever the size of n.
C6_HurtLaw ==
    probe.op = "hurt" =>
        IF probe.arg < probe.before.life
        THEN game.life = probe.before.life - probe.arg
             /\ game.dead = probe.before.dead
        ELSE game.life = 0 /\ game.dead

C6_Witness ==
    /\ probe.op = "hurt"
    /\ probe.arg = Far
    /\ probe.before.life = 6
    /\ game.dead

\* the cells of the viewport at base
ViewCells(base) == { view_cell(base, i) : i \in ViewIndex }

StatsOf(g) == <<g.life, g.ammo, g.flasks, g.keys, g.gold>>

\* C4: when the game is over (dead is set) and no restart is pressed, a
\* step dispatches no cell and leaves grid, tick, view, player and stats as
\* they were.  (update_game returns early on paused only: a dead game goes on
\* panning and sweeping.)
C4_DeadSkipsStep ==
    [][(game.dead /\ ~btnp(input', BUTTON_A)) =>
          /\ last'.hits = << >>
          /\ game'.cells = game.cells
          /\ game'.tick = game.tick
          /\ game'.view = game.view
          /\ game'.player = game.player
          /\ StatsOf(game') = StatsOf(game)]_vars

\* C5 as claimed: a step that starts paused leaves grid, tick, view, player,
\* generator cursor and stats as they were; the paused flag changes only on
\* X just pressed with the game not dead, and is cleared.
C5_Original ==
    [][game.paused =>
          /\ game'.cells = game.cells
          /\ game'.tick = game.tick
          /\ game'.view = game.view
          /\ game'.player = game.player
          /\ game'.rand = game.rand
          /\ StatsOf(game') = StatsOf(game)
          /\ (game'.paused # game.paused =>
                btnp(input', BUTTON_X) /\ ~game.dead /\ ~game'.paused)]_vars

\* C5: a step that starts paused and on which X is not just pressed leaves
\* the whole game state as it was; X just pressed (game not dead) clears the
\* paused flag, and that same step goes on to pan or sweep.
C5_PausedFrozen ==
    [][game.paused =>
          IF btnp(input', BUTTON_X) /\ ~game.dead
          THEN ~game'.paused /\ last'.what \in {"pan", "sweep", "leave"}
          ELSE game' = game /\ last'.what = "paused"]_vars

C5_Witness ==
    /\ level = "cross"
    /\ last.waspaused /\ last.what = "paused"
    /\ game.paused
    /\ game.tick > 0

\* C7: when the player's base rectangle after a sweep differs from the one
\* swept, every cell of the viewport just left (the player's vacated cell
\* among them) and the player's cell are hibernated against the tick of the
\* sweep (tile kept, tick becomes (tick - game tick) mod 256), no other cell
\* changes, and the game tick is 0 afterwards.
C7_HibernateThenReset ==
    last.what = "leave" =>
        /\ game.tick = 0
        /\ last.from \in ViewCells(last.base)
        /\ \A y \in 0 .. MAP_ROWS - 1 : \A x \in 0 .. MAP_COLS - 1 :
               LET old == last.mid.cells[y][x]
                   new == game.cells[y][x]
               IN  IF vec2(x, y) \in ViewCells(last.base) \cup {game.player}
                   THEN /\ new.tile = old.tile
                        /\ new.tick = (old.tick - last.mid.tick) % 256
                   ELSE new = old

C7_Witness ==
    /\ last.what = "leave"
    /\ last.mid.tick = 1
    /\ last.mid.cells[VR - 1][VC - 2].tick = 16
    /\ game.cells[VR - 1][VC - 2].tile \in WaterTiles
    /\ game.cells[VR - 1][VC - 2].tick = 15

\* the tick law of a step that starts with the tick at t0
TickLaw(t0) ==
    IF last'.what \in {"sweep", "leave"}
    THEN game'.tick = IF ~veq(vbase(game'.player), last'.base)
                      THEN 0 ELSE (t0 + 1) % 256
    ELSE game'.tick = t0

\* C8 as claimed: the tick changes only at the end of a sweep step, to 0 if
\* the player's base rectangle changed during the sweep and to (tick + 1)
\* mod 256 otherwise; pan steps and paused steps leave it alone.
C8_Original == [][TickLaw(game.tick)]_vars

\* C8: as claimed, except that a restart (start_game, on A just pressed while
\* dead) first sets the tick to 0 in the same step.
C8_TickLaw == [][TickLaw(IF last'.restart THEN 0 ELSE game.tick)]_vars

C8_Witness ==
    /\ last.what = "sweep"
    /\ steps = 256
    /\ game.tick = 0

\* the offset of the player's base rectangle from the view, and the pan
\* steps it takes
PanOffset(g) == vsub(vbase(g.player), g.view)
PanSteps(d) == Max(Abs(d.x) \div 2, Abs(d.y))
PanRemaining(g) == PanSteps(PanOffset(g))

\* C9: with the view off the player's base rectangle by (dx, dy), dx even,
\* panning reaches exact alignment in exactly max(|dx|/2, |dy|) steps: every
\* pan step brings the view one step nearer, dispatches no cell and changes
\* no cell nor the tick, and the first step that finds the view aligned
\* sweeps.
C9_PanSteps ==
    [][/\ last'.what = "pan" =>
             /\ PanRemaining(game) > 0
             /\ PanRemaining(game') = PanRemaining(game) - 1
             /\ last'.pans + PanRemaining(game') = PanSteps(probe.pos)
             /\ last'.hits = << >>
             /\ game'.cells = game.cells
             /\ game'.tick = game.tick
       /\ last'.what = "sweep" =>
             /\ PanRemaining(game) = 0
             /\ veq(game.view, vbase(game.player))
             /\ last'.pans = PanSteps(probe.pos)
       /\ PanRemaining(game) = 0 => last'.what = "sweep"]_vars

C9_Witness ==
    /\ probe.op = "pan"
    /\ probe.pos = vec2(4, 2)
    /\ last.what = "sweep"
    /\ last.pans = 2
    /\ steps = 1

Aligned(v) == (v.x % VIEW_COLS = 0) /\ (v.y % VIEW_ROWS = 0)

\* C10 as claimed: in every reachable state view.x is a multiple of
\* VIEW_COLS and view.y a multiple of VIEW_ROWS.
C10_Original == Aligned(game.view)

\* C10: the view origin is grid-aligned after start_game and after every
\* sweep step (every sweep runs on an aligned viewport); while a pan is in
\* progress it is not, and moves between aligned origins with view.x a
\* multiple of 2.
C10_AlignedWhenSwept ==
    /\ last.what \in {"start", "sweep", "leave"} => Aligned(game.view)
    /\ game.view.x % PAN_X = 0
    /\ last.restart /\ last.what # "paused" => Aligned(game.view)

C10_Witness ==
    /\ last.what = "sweep"
    /\ game.view = vec2(VIEW_COLS, 0)
    /\ game.tick > 0

\* ------------------------------------------------ the dispatches of a step
\* last.hits[k] is the k-th cell whose behaviour ran in the sweep of the last
\* step and last.pres[k] the state it ran in.  Silent(k) is that state with
\* no sound pending and Dispatched(k) the state update_cell left.
Dispatches == DOMAIN last.hits
Silent(k) == [last.pres[k] EXCEPT !.playing = {}]
Dispatched(k) == update_cell(Silent(k), input, build, last.hits[k])

GridCells == { vec2(x, y) : x \in 0 .. MAP_COLS - 1, y \in 0 .. MAP_ROWS - 1 }

\* the cells of the viewport with origin view, as a rectangle of the grid
InViewport(view, v) ==
    /\ v.x >= view.x /\ v.x < view.x + VIEW_COLS
    /\ v.y >= view.y /\ v.y < view.y + VIEW_ROWS

\* the cells of the grid except those of vs are the same in g and h
SameBut(g, h, vs) == \A w \in GridCells \ vs : get(h, w) = get(g, w)

ArrowTiles == TILE_ARROW_N .. TILE_ARROW_N + 3
WetArrowTiles == TILE_WARROW_N .. TILE_WARROW_N + 3
BoltTiles == TILE_BOLT_N .. TILE_BOLT_N + 3
WetBoltTiles == TILE_WBOLT_N .. TILE_WBOLT_N + 3
ProjectileTiles == ArrowTiles \cup WetArrowTiles \cup BoltTiles \cup WetBoltTiles

\* the direction a projectile tile flies in
FlightOf(t) ==
    CASE t \in ArrowTiles -> DIR_NORTH + (t - TILE_ARROW_N)
      [] t \in WetArrowTiles -> DIR_NORTH + (t - TILE_WARROW_N)
      [] t \in BoltTiles -> DIR_NORTH + (t - TILE_BOLT_N)
      [] OTHER -> DIR_NORTH + (t - TILE_WBOLT_N)

\* the k-th dispatch is of a projectile whose next cell is outside the viewport
LeavesView(k) ==
    LET t == get(last.pres[k], last.hits[k]).tile
    IN  /\ t \in ProjectileTiles
        /\ ~InViewport(last.pres[k].view, vmove(last.hits[k], FlightOf(t)))

\* what a dropped projectile leaves of the state pre in which it flew from v:
\* post differs at v only, which is empty, or water for a wet projectile
Dropped(pre, post, v) ==
    /\ SameBut(pre, post, {v})
    /\ IF get(pre, v).tile \in WetArrowTiles \cup WetBoltTiles
       THEN get(post, v).tile \in WaterTiles
       ELSE get(post, v) = Cell(TILE_EMPTY, 0)
    /\ StatsOf(post) = StatsOf(pre)
    /\ post.dead = pre.dead /\ post.player = pre.player
    /\ post.view = pre.view /\ post.tick = pre.tick

\* C12: an arrow or bolt whose next cell is outside the viewport only cleans
\* its own cell up (empty, or water for a wet one): no other cell of the
\* grid, in or out of the viewport, changes, and life, dead flag, player and
\* view stay as they were.
C12_DroppedAtViewEdge ==
    \A k \in Dispatches :
        LeavesView(k) => Dropped(last.pres[k], Dispatched(k), last.hits[k])

\* a wet arrow in the last column of the page flies east, a monster in the
\* cell beyond
C12_Witness ==
    \E k \in Dispatches :
        /\ LeavesView(k)
        /\ get(last.pres[k], last.hits[k]).tile = TILE_WARROW_N + 1
        /\ get(last.pres[k], vmove(last.hits[k], DIR_EAST)).tile \in MonsterTiles
        /\ get(Dispatched(k), last.hits[k]).tile \in WaterTiles

\* the k-th dispatch is of the player's cell with a direction held and the
\* shoot button released: the player walks
Walks(k) ==
    /\ get(last.pres[k], last.hits[k]).tile \in PlayerTiles
    /\ input_dir(input) # DIR_NONE
    /\ ~btn(input, BUTTON_A)

\* the cell the player of the k-th dispatch walks to, and the one behind it
Ahead(k) == vmove(last.hits[k], input_dir(input))
Beyond(k) == vmove(Ahead(k), input_dir(input))

\* the k-th dispatch walks the player into a boulder before water
PushesIntoWater(k) ==
    /\ Walks(k)
    /\ get(last.pres[k], Ahead(k)).tile = TILE_BOULDER
    /\ get(last.pres[k], Beyond(k)).tile \in WaterTiles

\* what the push into water leaves of pre: the boulder gone, an explosion in
\* the water, the player standing where it was
Sunk(pre, post, src, dst, far) ==
    /\ get(post, dst) = Cell(TILE_EMPTY, 0)
    /\ get(post, far) = Cell(TILE_EXPLOSION_0, (pre.tick + 2) % 256)
    /\ {"BOULDER", "EXPLODE"} \subseteq post.playing
    /\ get(post, src) = Cell(TILE_PLAYER_STAND, (pre.tick + 1) % 256)
    /\ post.player = src
    /\ post.view = pre.view
    /\ SameBut(pre, post, {src, dst, far})

\* C14: when the player walks into a boulder whose next cell is water, the
\* boulder's cell is cleared, the water cell becomes explosion frame 0, the
\* boulder-push and the explosion sound both fire, and the player stays:
\* its cell is re-shaped as the stand pose and the recorded position is that
\* cell.
C14_BoulderIntoWater ==
    \A k \in Dispatches :
        PushesIntoWater(k) =>
            Sunk(last.pres[k], Dispatched(k), last.hits[k], Ahead(k), Beyond(k))

\* the player, recorded where it stands, pushed the boulder west of it into
\* the water
C14_Witness ==
    \E k \in Dispatches :
        /\ PushesIntoWater(k)
        /\ last.pres[k].player = last.hits[k]
        /\ input_dir(input) = DIR_WEST
        /\ game.player = last.hits[k]
        /\ get(Whole(game, {}), Ahead(k)).tile = TILE_EMPTY
        /\ get(Whole(game, {}), Beyond(k)).tile = TILE_EXPLOSION_0

\* the k-th dispatch lets an arrow fly: an arrow tile moves on, or the
\* player shoots (update_player calls update_arrow from the player's cell)
FliesArrow(k) ==
    \/ get(last.pres[k], last.hits[k]).tile \in ArrowTiles \cup WetArrowTiles
    \/ /\ get(last.pres[k], last.hits[k]).tile \in PlayerTiles
       /\ btn(input, BUTTON_A)
       /\ input_dir(input) # DIR_NONE

\* the cell that arrow arrives on
Target(k) ==
    LET t == get(last.pres[k], last.hits[k]).tile
    IN  vmove(last.hits[k],
              IF t \in PlayerTiles THEN input_dir(input) ELSE FlightOf(t))

\* the k-th dispatch lets an arrow arrive on a monster in the viewport
HitsMonster(k) ==
    /\ FliesArrow(k)
    /\ InViewport(last.pres[k].view, Target(k))
    /\ get(last.pres[k], Target(k)).tile \in MonsterTiles

\* what the hit leaves of pre: the arrow from src gone, the monster at dst
\* destroyed or one tier down
Struck(pre, post, src, dst) ==
    /\ IF get(pre, dst).tile = TILE_MONSTER_0
       THEN /\ get(post, dst) = Cell(TILE_EXPLOSION_0, (pre.tick + 2) % 256)
            /\ "MONSTER_DIED" \in post.playing
       ELSE /\ get(post, dst) = Cell(get(pre, dst).tile - 1, get(pre, dst).tick)
            /\ "MONSTER_HURT" \in post.playing
    /\ get(post, src).tile \notin ArrowTiles \cup WetArrowTiles
    /\ SameBut(pre, post, {src, dst})

\* C15: an arrow arriving on a tier-0 monster destroys it (explosion frame 0,
\* monster-died sound); on a monster of tier 1..3 it leaves the monster one
\* tier lower with the wake tick it had (monster-hurt sound).  The arrow is
\* consumed either way: its cell holds no arrow and no other cell changes.
C15_ArrowOnMonster ==
    \A k \in Dispatches :
        HitsMonster(k) =>
            Struck(last.pres[k], Dispatched(k), last.hits[k], Target(k))

\* an arrow tile flying east met the tier-2 monster, which waits for another
\* tick than the one two steps ahead
C15_Witness ==
    \E k \in Dispatches :
        /\ HitsMonster(k)
        /\ get(last.pres[k], last.hits[k]).tile = TILE_ARROW_N + 1
        /\ get(last.pres[k], Target(k)).tile = TILE_MONSTER_2
        /\ get(last.pres[k], Target(k)).tick # (last.pres[k].tick + 2) % 256
        /\ get(Whole(game, {}), Target(k)).tile = TILE_MONSTER_1

\* the position n cells from v in direction dir
Along(v, dir, n) == vadd(v, vec2(n * vdir(dir).x, n * vdir(dir).y))

\* the k-th dispatch walks the player into a teleporter with no teleporter
\* behind it in that direction, up to the edge of the grid
EntersLoneTeleporter(k) ==
    /\ Walks(k)
    /\ get(last.pres[k], Ahead(k)).tile = TILE_TELEPORT
    /\ \A n \in 2 .. MAP_COLS + MAP_ROWS :
           inside(Along(last.hits[k], input_dir(input), n)) =>
               get(last.pres[k], Along(last.hits[k], input_dir(input), n)).tile
                   # TILE_TELEPORT

\* what a blocked walk leaves of pre: the player's cell src re-shaped
Blocked(pre, post, src) ==
    /\ get(post, src) = Cell(TILE_PLAYER_STAND, (pre.tick + 1) % 256)
    /\ post.player = src
    /\ post.view = pre.view
    /\ post.playing = {"PLAYER_BLOCKED"}
    /\ SameBut(pre, post, {src})

\* C16: a step toward a teleporter without a second teleporter further along
\* that direction is a blocked move: the player's cell is re-shaped in place,
\* the recorded position is that cell, the view origin is unchanged, the
\* blocked sound (and no other) fires and no other cell is modified.
C16_LoneTeleporterBlocks ==
    \A k \in Dispatches :
        EntersLoneTeleporter(k) =>
            Blocked(last.pres[k], Dispatched(k), last.hits[k])

\* the player, recorded where it stands, walked east into the only
\* teleporter of the level
C16_Witness ==
    \E k \in Dispatches :
        /\ EntersLoneTeleporter(k)
        /\ last.pres[k].player = last.hits[k]
        /\ game.player = last.hits[k]
        /\ get(Whole(game, {}), Ahead(k)).tile = TILE_TELEPORT
        /\ "PLAYER_BLOCKED" \in playing

\* the tiles that show the player: its poses and the frames of its arrival
PlayerKindTiles == PlayerTiles \cup (TILE_PSPAWN_0 .. TILE_PSPAWN_3)

\* the cells of the grid that hold a player-kind tile
PlayerCells == { w \in GridCells : get(Whole(game, {}), w).tile \in PlayerKindTiles }

\* the levels with exactly one player pixel
OneSpawnLevels == Levels \ {"none"}

\* C17: while a game loaded with one player spawn is not over, after every
\* step exactly one cell holds a player-kind tile and that cell is the
\* recorded player position.  (A successful boulder push moves the player's
\* tile and leaves the recorded position behind.)
C17_OnePlayerAtRecord ==
    (level \in OneSpawnLevels /\ ~game.dead) => PlayerCells = {game.player}

\* C18: while the game is neither over nor paused, every cell holding a
\* player tile lies in the viewport that is swept once panning completes,
\* the page of the recorded player position, so that the player's cell is
\* dispatched again.  (A boulder pushed across a page boundary takes the
\* player's tile into a page that the view never pans to.)
C18_PlayerInSweptView ==
    (level \in OneSpawnLevels /\ ~game.dead /\ ~game.paused) =>
        \A w \in PlayerCells : InViewport(vbase(game.player), w)

\* the place of the viewport cell w in the row-major order of the sweep
IndexOf(base, w) == (w.y - base.y) * VIEW_COLS + (w.x - base.x)

\* the cells that the k-th dispatch changed
ChangedBy(k) ==
    { w \in GridCells : get(Dispatched(k), w) # get(last.pres[k], w) }

\* the cell w holds, before and after the k-th dispatch, a monster waiting
\* for the same tick: the monster an arrow or bolt took a tier from
HurtInPlace(pre, post, w) ==
    /\ get(pre, w).tile \in MonsterTiles
    /\ get(post, w).tile \in MonsterTiles
    /\ get(post, w).tick = get(pre, w).tick

\* C19: the cells dispatched in one sweep are cells of the viewport in
\* strictly increasing row-major order (no cell twice), and no entity acts
\* twice in the sweep: an entity that a dispatch moved or created waits for
\* another tick than the current one, in a cell not yet visited as in any
\* other, and a cell is dispatched as the sweep found it, or as the
\* monster in it that lost a tier in place.
C19_OneTransitionPerSweep ==
    /\ \A k \in Dispatches :
           /\ InViewport(last.base, last.hits[k])
           /\ \A j \in Dispatches :
                  j < k => IndexOf(last.base, last.hits[j])
                               < IndexOf(last.base, last.hits[k])
    /\ \A k \in Dispatches : \A w \in ChangedBy(k) :
           get(Dispatched(k), w).tile \in BehaviourTiles =>
               \/ get(Dispatched(k), w).tick # last.pres[k].tick
               \/ HurtInPlace(last.pres[k], Dispatched(k), w)
    /\ \A k \in Dispatches :
           \/ get(last.pres[k], last.hits[k]) = get(last.pres[1], last.hits[k])
           \/ HurtInPlace(last.pres[1], last.pres[k], last.hits[k])

\* a dispatch put an arrow into a cell of the viewport that the sweep had not
\* reached, cells were dispatched after it, and the arrow was not one of them
C19_Witness ==
    \E k \in Dispatches : \E w \in ChangedBy(k) :
        /\ get(Dispatched(k), w).tile \in ArrowTiles
        /\ InViewport(last.base, w)
        /\ IndexOf(last.base, w) > IndexOf(last.base, last.hits[k])
        /\ \E j \in Dispatches : j > k
        /\ \A j \in Dispatches : last.hits[j] # w

\* the number of sweeps of its viewport after which a cell with wake tick w
\* is dispatched, when the next sweep of that viewport runs at tick t: sweep
\* number n runs at tick t + n - 1
SweepsUntil(w, t) == CHOOSE n \in 1 .. 256 : w = (t + n - 1) % 256

\* the waiting time of cell v after the transition of the last step (the
\* next sweep runs at the tick the step left), and the one it would have had
\* with the tick going on from the sweep that ended in the transition
WaitAfter(v) == SweepsUntil(get(Whole(game, {}), v).tick, game.tick)
WaitContinued(v) ==
    SweepsUntil(last.mid.cells[v.y][v.x].tick, (last.mid.tick + 1) % 256)

\* C20: a viewport transition leaves every hibernated cell, the player's own
\* cell among them, the waiting time it had: it is next dispatched after as
\* many sweeps of its viewport as if the tick had gone on without a reset.
\* (The reset makes the next sweep run at tick 0, where going on would make
\* it run at tick + 1: every hibernated cell waits one sweep longer.)
C20_SameWaitAcrossTransition ==
    last.what = "leave" =>
        \A v \in ViewCells(last.base) \cup {game.player} :
            inside(v) => WaitAfter(v) = WaitContinued(v)

\* the pixel at v is wall, or v is outside the bitmap
WallPixel(v) == inside(v) => Pixel(level, v.x, v.y) = "wall"

\* the pixel at v and its 8 neighbours are all wall or outside
EnclosedPixel(v) ==
    \A dy \in -1 .. 1 : \A dx \in -1 .. 1 : WallPixel(vadd(v, vec2(dx, dy)))

\* C13: in the game as loaded, a cell holds the solid wall (WALL_X) exactly
\* when its pixel and the pixels of all 8 neighbours are wall, positions
\* outside the grid counting as wall; a wall pixel with a neighbour that is
\* not wall holds one of the four ordinary wall variants.  The promotion is
\* done in place, in row-major order, and still gives this result.
C13_SolidWalls ==
    last.what = "start" =>
        \A v \in GridCells :
            /\ (get(Whole(game, {}), v).tile = TILE_WALL_X) <=> EnclosedPixel(v)
            /\ (WallPixel(v) /\ ~EnclosedPixel(v)) =>
                   get(Whole(game, {}), v).tile \in TILE_WALL_0 .. TILE_WALL_3

\* a loaded bitmap in which the cell in the corner of the grid is solid, its
\* neighbour (promoted after it) is solid too, and a wall next to the floor
\* keeps an ordinary variant
C13_Witness ==
    /\ level = "drawn" /\ last.what = "start"
    /\ game.cells[0][0].tile = TILE_WALL_X
    /\ game.cells[0][1].tile = TILE_WALL_X
    /\ game.cells[1][1].tile = TILE_WALL_X
    /\ game.cells[1][2].tile \in TILE_WALL_0 .. TILE_WALL_3
    /\ game.cells[2][3].tile = TILE_EMPTY

\* the state after n draws of the generator from g (n >= 0): the first half
\* of the draws leaves h, the second half starts there
RECURSIVE AfterDraws(_, _)
AfterDraws(g, n) ==
    IF n = 0 THEN g
    ELSE IF n = 1 THEN rnd_adv(g)
    ELSE CHOOSE r \in {AfterDraws(h, n - (n \div 2)) :
                         h \in {AfterDraws(g, n \div 2)}} : TRUE

\* the n-th byte (n >= 0) that the generator returns from g on
Draw(g, n) == rnd_val(AfterDraws(g, n))

\* from its cursor c the generator returns table[c], table[c + 1], .. with the
\* index taken modulo 256, and after 256 draws it is where it was
RndPeriodic(g) ==
    /\ AfterDraws(g, 256).rand = g.rand
    /\ \A n \in {0, 1, 2, 255} :
           /\ Draw(g, n) = rnd_data[((g.rand + n) % 256) + 1]
           /\ Draw(g, n + 256) = Draw(g, n)

ExitSteps(k) ==
    { n \in 2 .. MAP_COLS + MAP_ROWS :
        /\ inside(Along(last.hits[k], input_dir(input), n))
        /\ get(last.pres[k], Along(last.hits[k], input_dir(input), n)).tile
               = TILE_TELEPORT }

\* the k-th dispatch walks the player into a teleporter with a second one
\* further along the direction
Teleports(k) ==
    /\ Walks(k)
    /\ get(last.pres[k], Ahead(k)).tile = TILE_TELEPORT
    /\ ExitSteps(k) # {}

\* the cell one step past the first teleporter found
Landing(k) ==
    Along(last.hits[k], input_dir(input),
          1 + CHOOSE n \in ExitSteps(k) : \A m \in ExitSteps(k) : n <= m)

\* what a teleport from src to land leaves of pre
Arrived(pre, post, src, land) ==
    /\ get(post, src) = Cell(TILE_EMPTY, 0)
    /\ post.player = land
    /\ post.view = vbase(land)
    /\ get(post, land) = Cell(TILE_PSPAWN_0, (pre.tick + 2) % 256)

\* the cell that a dispatched frame of the arrival turns into at tick t
NextFrame(tile, t) ==
    IF tile = TILE_PSPAWN_3 THEN Cell(TILE_PLAYER_STAND, (t + 1) % 256)
    ELSE Cell(tile + 1, (t + 2) % 256)

ArrivalTiles == {TILE_PSPAWN_0, TILE_PSPAWN_1, TILE_PSPAWN_2, TILE_PSPAWN_3}

\* C21: a walk into a teleporter with a second teleporter along the direction
\* empties the player's cell, records the player one step past the second
\* teleporter, sets the view origin to the base rectangle of that position in
\* the same dispatch and shapes the cell there as arrival frame 0 with delay
\* 2; a dispatched arrival frame becomes the next frame with delay 2 and the
\* fourth frame becomes the stand pose.
C21_TeleportArrives ==
    \A k \in Dispatches :
        /\ Teleports(k) =>
               Arrived(last.pres[k], Dispatched(k), last.hits[k], Landing(k))
        /\ get(last.pres[k], last.hits[k]).tile \in ArrivalTiles =>
               get(Dispatched(k), last.hits[k])
                   = NextFrame(get(last.pres[k], last.hits[k]).tile,
                               last.pres[k].tick)

\* the fourth arrival frame of a player teleported to another page has
\* turned into the stand pose, where the player is recorded
C21_Witness ==
    /\ level = "gate"
    /\ ~veq(vbase(game.player), vec2(0, 0))
    /\ \E k \in Dispatches :
           /\ get(last.pres[k], last.hits[k]).tile = TILE_PSPAWN_3
           /\ last.hits[k] = game.player
           /\ get(Whole(game, {}), game.player).tile = TILE_PLAYER_STAND

\* C22: a teleport that finds a second teleporter lands the player on a cell
\* inside the grid that was empty before, and the recorded player position
\* is inside the grid afterwards.
C22_TeleportLandsOnEmpty ==
    \A k \in Dispatches :
        Teleports(k) =>
            /\ inside(Landing(k))
            /\ get(last.pres[k], Landing(k)).tile = TILE_EMPTY
            /\ inside(Dispatched(k).player)

\* ------------------------------------------------------ a walk into decor
GrassTiles == {TILE_GRASS_0, TILE_GRASS_1}
RuinTiles == {TILE_RUIN_0, TILE_RUIN_1}

\* the k-th dispatch walks the player into a cell with a tile of tiles
WalksInto(k, tiles) ==
    Walks(k) /\ get(last.pres[k], Ahead(k)).tile \in tiles

\* the player of pre stays on src, blocked, and the cell dst it walked to
\* becomes the first frame of an explosion
Trampled(pre, post, src, dst) ==
    /\ get(post, dst) = Cell(TILE_EXPLOSION_0, (pre.tick + 2) % 256)
    /\ get(post, src) = Cell(TILE_PLAYER_STAND, (pre.tick + 1) % 256)
    /\ post.player = src

\* C23 as claimed: a walk into grass or into a ruin turns the decor cell into
\* an explosion and leaves the player blocked on its cell, re-shaped as the
\* stand pose, its recorded position unchanged.
C23_Original ==
    \A k \in Dispatches :
        WalksInto(k, GrassTiles \cup RuinTiles) =>
            Trampled(last.pres[k], Dispatched(k), last.hits[k], Ahead(k))

\* C23: a walk into grass turns the grass cell into an explosion and leaves
\* the player blocked on its cell (stand pose with delay 1, recorded there);
\* a walk into a ruin is a blocked move that changes the player's cell only.
C23_GrassExplodes ==
    \A k \in Dispatches :
        /\ WalksInto(k, GrassTiles) =>
               Trampled(last.pres[k], Dispatched(k), last.hits[k], Ahead(k))
        /\ WalksInto(k, RuinTiles) =>
               Blocked(last.pres[k], Dispatched(k), last.hits[k])

\* the player has walked west into the grass, which explodes, and now east
\* into the ruin, which stands
C23_Witness ==
    \E k \in Dispatches :
        /\ WalksInto(k, RuinTiles)
        /\ get(Whole(game, {}), Ahead(k)).tile \in RuinTiles
        /\ get(Whole(game, {}), vmove(last.hits[k], DIR_WEST)).tile
               \in ExplosionTiles
        /\ game.player = last.hits[k]

\* ------------------------------------------------------ a monster's turn
\* the k-th dispatch is of a monster; its tier
MonsterActs(k) == get(last.pres[k], last.hits[k]).tile \in MonsterTiles
TierOf(k) == get(last.pres[k], last.hits[k]).tile - TILE_MONSTER_0

\* the destination that the monster of the k-th dispatch chooses
Chosen(k) ==
    vmove(last.hits[k], chase_dir(Silent(k), last.hits[k], last.pres[k].player))

\* life and the dead flag of post are those of pre after hurt(damage)
Hurt(pre, post, damage) ==
    IF damage < pre.life
    THEN post.life = pre.life - damage /\ post.dead = pre.dead
    ELSE post.life = 0 /\ post.dead

\* C24: a dispatched monster of tier k whose chosen destination holds a
\* player pose hurts the player by k + 1, its own cell becomes explosion
\* frame 0 (delay 2) and the destination becomes the defend pose with
\* delay 5.
C24_MonsterAttacks ==
    \A k \in Dispatches :
        (MonsterActs(k) /\ get(last.pres[k], Chosen(k)).tile \in PlayerTiles) =>
            /\ Hurt(last.pres[k], Dispatched(k), TierOf(k) + 1)
            /\ get(Dispatched(k), last.hits[k])
                   = Cell(TILE_EXPLOSION_0, (last.pres[k].tick + 2) % 256)
            /\ get(Dispatched(k), Chosen(k))
                   = Cell(TILE_PLAYER_DEFEND, (last.pres[k].tick + 5) % 256)

\* a monster of tier 3 has attacked a player with 2 lives left: the player
\* is dead and its cell holds the defend pose
C24_Witness ==
    \E k \in Dispatches :
        /\ MonsterActs(k) /\ TierOf(k) = 3
        /\ get(last.pres[k], Chosen(k)).tile \in PlayerTiles
        /\ last.pres[k].life = 2
        /\ Dispatched(k).dead /\ game.dead /\ game.life = 0
        /\ get(Whole(game, {}), Chosen(k)).tile = TILE_PLAYER_DEFEND

\* the cells one step from src along one axis on which p differs from src,
\* on p's side; src itself where p is src
Sgn(n) == IF n < 0 THEN -1 ELSE IF n > 0 THEN 1 ELSE 0
Toward(src, p) ==
    IF veq(src, p) THEN {src}
    ELSE {vadd(src, vec2(Sgn(p.x - src.x), 0)) : i \in {1} \cap {Abs(Sgn(p.x - src.x))}}
         \cup
         {vadd(src, vec2(0, Sgn(p.y - src.y))) : i \in {1} \cap {Abs(Sgn(p.y - src.y))}}

\* C25: a dispatched monster chooses a destination one cell from its own
\* along one axis, on the side of the recorded player position (its own cell
\* where it stands on that position).  If the destination is empty the
\* monster's cell becomes empty and the destination holds the monster with
\* the same tier and delay 16, and no other cell changes; if the destination
\* holds neither nothing nor a player pose the monster stays, with the same
\* tier and delay 16, and no other cell changes.
C25_MonsterSteps ==
    \A k \in Dispatches :
        MonsterActs(k) =>
            /\ Chosen(k) \in Toward(last.hits[k], last.pres[k].player)
            /\ get(last.pres[k], Chosen(k)).tile = TILE_EMPTY =>
                   /\ get(Dispatched(k), last.hits[k]) = Cell(TILE_EMPTY, 0)
                   /\ get(Dispatched(k), Chosen(k))
                          = Cell(TILE_MONSTER_0 + TierOf(k),
                                 (last.pres[k].tick + 16) % 256)
                   /\ SameBut(last.pres[k], Dispatched(k),
                              {last.hits[k], Chosen(k)})
            /\ get(last.pres[k], Chosen(k)).tile \notin {TILE_EMPTY} \cup PlayerTiles =>
                   /\ get(Dispatched(k), last.hits[k])
                          = Cell(TILE_MONSTER_0 + TierOf(k),
                                 (last.pres[k].tick + 16) % 256)
                   /\ SameBut(last.pres[k], Dispatched(k), {last.hits[k]})

\* a monster diagonally off the player has stepped along one axis into an
\* empty cell, where it stands now
C25_Witness ==
    \E k \in Dispatches :
        /\ MonsterActs(k)
        /\ chase_rolls(last.hits[k], last.pres[k].player)
        /\ get(last.pres[k], Chosen(k)).tile = TILE_EMPTY
        /\ get(Whole(game, {}), Chosen(k)).tile = TILE_MONSTER_0 + TierOf(k)
        /\ get(Whole(game, {}), last.hits[k]).tile = TILE_EMPTY

\* ------------------------------------------------------------- a restart
\* the game that start_game leaves at program start (on_init)
Started == start_game([playing |-> {}], level)

\* C26: update_game calls start_game only when the game is dead and A is
\* newly pressed, and the game it leaves is then the game that start_game left
\* at program start on the same level, field by field (grid, player, view,
\* tick, generator cursor, life, ammo, the other stats, dead and paused); the
\* rest of the tick runs on it as the first tick of the program does.
C26_RestartResets ==
    [][ /\ ~(game.dead /\ btnp(input', BUTTON_A)) =>
               restart_check(Whole(game, {}), input', level) = Whole(game, {})
        /\ (game.dead /\ btnp(input', BUTTON_A)) =>
               \A s \in {Started} :
                   /\ restart_check(Whole(game, {}), input', level) = s
                   /\ s.tick = 0 /\ s.life = 10 /\ s.ammo = 5
                   /\ ~s.dead /\ ~s.paused
                   /\ game' = GameOf(update_game(s, input', build, level).g)
      ]_vars

\* a dead game has just been restarted
C26_Witness ==
    /\ last.restart /\ last.wasdead
    /\ ~game.dead /\ game.life = 10 /\ game.tick = 1
    /\ game.player = Started.player

\* ------------------------------------------------------------- the stats
\* C27: in every state of the game life is between 0 and 999, ammo and
\* flasks are at most 999, and the game is dead exactly when life is 0.
C27_StatsInRange ==
    /\ game.life >= 0 /\ game.life <= 999
    /\ game.ammo <= 999
    /\ game.flasks <= 999
    /\ game.dead <=> (game.life = 0)

\* a dispatch of the last sweep found the player alive and the game is dead
\* now, with no life left
C27_Witness ==
    /\ game.dead /\ game.life = 0
    /\ \E k \in Dispatches : last.pres[k].life > 0 /\ ~last.pres[k].dead

\* ---------------------------------------------------------- an explosion
\* the state the k-th dispatch of the last step left: the state the next
\* dispatch ran in, or the state at the end of the sweep
After(k) ==
    IF k < Len(last.hits) THEN last.pres[k + 1]
    ELSE IF last.what = "leave" THEN last.mid
    ELSE Whole(game, {})

\* a dispatch of the last step other than that of v itself changed v
Overwritten(v) ==
    \E k \in Dispatches :
        last.hits[k] # v /\ get(After(k), v) # get(last.pres[k], v)

\* the sweeps after which the cell v of g is due, the coming one being 0
Due(g, v) == (get(g, v).tick + 256 - g.tick) % 256

\* the sweeps an explosion in v needs to have emptied its cell
Frame(g, v) == get(g, v).tile - TILE_EXPLOSION_0
Left(g, v) == Due(g, v) + 1 + 2 * (3 - Frame(g, v))

\* every explosion that a dispatch of the last step put into a cell of the
\* swept viewport is frame 0, due two ticks after the tick of the sweep
CreatedFresh ==
    \A k \in Dispatches : \A v \in ViewCells(last.base) :
        (/\ get(After(k), v).tile = TILE_EXPLOSION_0
         /\ get(After(k), v) # get(last.pres[k], v)) =>
            get(After(k), v).tick = (last.pres[k].tick + 2) % 256

\* a step that sweeps the viewport takes, from every explosion in it that is
\* due at this sweep or the next and that no other cell's dispatch
\* overwrites, one of the sweeps it has left
Advances ==
    \A v \in ViewCells(last'.base) :
        (/\ get(Whole(game, {}), v).tile \in ExplosionTiles
         /\ Due(Whole(game, {}), v) <= 1
         /\ ~Overwritten(v)') =>
            IF Left(Whole(game, {}), v) = 1
            THEN get(Whole(game', {}), v) = Cell(TILE_EMPTY, 0)
            ELSE /\ get(Whole(game', {}), v).tile \in ExplosionTiles
                 /\ Frame(Whole(game', {}), v) >= Frame(Whole(game, {}), v)
                 /\ Due(Whole(game', {}), v) <= 1
                 /\ Left(Whole(game', {}), v) = Left(Whole(game, {}), v) - 1

\* C28: an explosion created by a dispatch in the swept viewport is frame 0
\* with 8 sweeps left (delay 2), and every further sweep of that viewport
\* that does not overwrite it takes one sweep from what it has left, without
\* a step back to an earlier frame: two sweeps per frame through frames 0,
\* 1, 2, 3, and the cell is empty after the eighth.
C28_ExplosionRunsOut ==
    [][ /\ CreatedFresh'
        /\ (last'.what = "sweep" /\ ~last'.restart) => Advances
      ]_vars

\* the fourth frame of an explosion was dispatched in the last sweep and its
\* cell is empty
C28_Witness ==
    /\ last.what = "sweep"
    /\ \E k \in Dispatches :
           /\ get(last.pres[k], last.hits[k]).tile = TILE_EXPLOSION_0 + 3
           /\ ~Overwritten(last.hits[k])
           /\ get(Whole(game, {}), last.hits[k]) = Cell(TILE_EMPTY, 0)

\* ----------------------------------------------------------- a projectile
\* the k-th dispatch is of an arrow or a bolt
Flies(k) == get(last.pres[k], last.hits[k]).tile \in ProjectileTiles

\* arrows stay arrows and bolts stay bolts
SameFamily(t, u) ==
    (t \in ArrowTiles \cup WetArrowTiles) <=> (u \in ArrowTiles \cup WetArrowTiles)

\* the dispatch of a projectile empties its cell of it and changes at most
\* the next cell in its direction; a projectile it puts there is of its
\* family and direction, inside the swept viewport, due two ticks later
Advanced(pre, post, src, base) ==
    /\ get(post, src).tile \notin ProjectileTiles
    /\ \A w \in GridCells \ {src} :
           get(post, w) # get(pre, w) =>
               w = vmove(src, FlightOf(get(pre, src).tile))
    /\ \A w \in GridCells \ {src} :
           (get(post, w) # get(pre, w) /\ get(post, w).tile \in ProjectileTiles) =>
               /\ InViewport(base, w)
               /\ SameFamily(get(pre, src).tile, get(post, w).tile)
               /\ FlightOf(get(post, w).tile) = FlightOf(get(pre, src).tile)
               /\ get(post, w).tick = (pre.tick + 2) % 256

\* every projectile that a dispatch of the last step put into a cell is due
\* two ticks after the tick of the sweep
Launched ==
    \A k \in Dispatches : \A v \in GridCells :
        (/\ get(After(k), v).tile \in ProjectileTiles
         /\ get(After(k), v) # get(last.pres[k], v)) =>
            /\ get(After(k), v).tick = (last.pres[k].tick + 2) % 256
            /\ InViewport(last.base, v)

\* a step that sweeps the viewport dispatches every projectile in it that is
\* due, and leaves one that is due at the next sweep where it is, due then
Waits ==
    \A v \in ViewCells(last'.base) :
        (/\ get(Whole(game, {}), v).tile \in ProjectileTiles
         /\ Due(Whole(game, {}), v) <= 1
         /\ ~Overwritten(v)') =>
            IF Due(Whole(game, {}), v) = 0
            THEN \E k \in DOMAIN last'.hits :
                     /\ last'.hits[k] = v
                     /\ get(last'.pres[k], v) = get(Whole(game, {}), v)
            ELSE /\ get(Whole(game', {}), v) = get(Whole(game, {}), v)
                 /\ Due(Whole(game', {}), v) = 0

\* C29: a projectile that enters a cell is due two ticks later; a sweep of
\* the viewport leaves a projectile that is not yet due for the next sweep
\* and dispatches one that is due, and the dispatch takes it out of its cell
\* and puts at most one projectile of its family and direction into the next
\* cell in its direction, only inside the viewport.  So a projectile spends
\* two sweeps in a cell, moves one cell per activation toward the edge of the
\* viewport and is gone after at most as many activations as the viewport
\* has cells in that direction.
C29_ProjectileRunsOut ==
    [][ /\ Launched'
        /\ \A k \in DOMAIN last'.hits :
               Flies(k)' =>
                   Advanced(last'.pres[k], After(k)', last'.hits[k], last'.base)
        /\ (last'.what = "sweep" /\ ~last'.restart) => Waits
      ]_vars

\* an arrow flying east was dispatched in the last sweep and is one cell
\* further east now
C29_Witness ==
    /\ last.what = "sweep"
    /\ \E k \in Dispatches :
           /\ get(last.pres[k], last.hits[k]).tile = TILE_ARROW_N + 1
           /\ get(Whole(game, {}), last.hits[k]) = Cell(TILE_EMPTY, 0)
           /\ get(Whole(game, {}), vmove(last.hits[k], DIR_EAST))
                  = Cell(TILE_ARROW_N + 1, (game.tick + 1) % 256)

=============================================================================
